---- MODULE Spec2Model ----
(***************************************************************************)
(* Storage resilience layer of custom_gateway (backend/app/db).            *)
(*                                                                         *)
(* Part 1 (Spec, FairSpec): DatabaseManager of db_manager.py, the tier     *)
(* orchestrator.  One manager call runs at a time; a call is cut at its    *)
(* await points (pc), where the asyncio timeouts of wait_for can fire and  *)
(* where another task of the event loop can enter get_session (connector.py*)
(* starts reinitialize with asyncio.create_task while requests are served).*)
(* Objects (engine, SQLiteDB, InMemoryDB) are identified by the number     *)
(* under which they were constructed; 0 stands for None.                   *)
(***************************************************************************)
EXTENDS Naturals, Integers, Sequences, FiniteSets, TLC

\* ---------------------------------------------------------------- bounds
MaxAlloc == 3          \* no new manager call once this many objects exist
MaxItems == 1          \* distinct payloads written through a session

Items == 1..MaxItems

\* Outcomes of the Primary attempt of one initialize (environment).
PriOutcomes ==
    {"unconfigured", "probe_fail", "engine_exc", "test_fail", "tables_exc", "ok", "hang"}
\* Outcomes of the Secondary attempt of one initialize (environment).
SecOutcomes == {"ok", "connect_exc", "tables_exc", "hang", "hang_tables"}

InitPcs == {"pri_probe", "pri_test", "pri_tables", "pri_dispose",
            "sq_connect", "sq_tables", "sq_cleanup"}
ShutdownPcs == {"sd_dispose", "sd_disconnect"}

VARIABLES
    mgr,         \* the DatabaseManager singleton: its fields, plus alloc / tried
    memData,     \* content of the InMemoryDB held in mgr.inmemory_db
    fileData,    \* content of the SQLite file at _sqlite_path
    remoteData,  \* content of the PostgreSQL server
    pc,          \* await point of the manager call in progress, or "idle"
    op,          \* manager call in progress
    lastOp,      \* manager call that completed last
    force,       \* force_fallback argument of the reinitialize in progress
    pri, sec,    \* environment met by the initialize in progress
    timedOut,    \* the last initialize ended through its total timeout
    raised,      \* a manager call let an exception escape
    session,     \* handle yielded by the latest get_session
    snap,        \* observable state when initialize was called again
    cycle,       \* where the manager is in a shutdown ... initialize cycle
    single,      \* DatabaseManager._instance, its _initialized, _db_manager
    mem,         \* an InMemoryDB: its dicts and id counters
    sql,         \* a connected SQLiteDB: tables, sqlite_sequence, staged objects
    scope,       \* entity kinds the caller of the adapters works with
    adds,        \* add / create_api calls made so far
    recent,      \* the latest add ... commit run of the caller
    memErr,      \* exception the latest call raised on InMemoryDB, or "none"
    sqlErr,      \* exception the latest call raised on SQLiteDB, or "none"
    acked,       \* SQLite rows as written by the calls that returned normally
    given,       \* per class, the last id InMemoryDB gave to an entity of it
    drain,       \* one SQLiteDB shared by two callers: its list and their tasks
    doc,         \* one nested field on SQLiteDB: value written, cell, value read
    adapter      \* one SQLiteDB across a shutdown: its _db, its file, a handle

mgrVars == <<mgr, memData, fileData, remoteData, pc, op, lastOp, force, pri, sec,
             timedOut, raised, session, snap, cycle, single>>

storeVars == <<mem, sql, scope, adds, recent, memErr, sqlErr, acked, given, drain, doc, adapter>>

vars == <<mgrVars, storeVars>>

NoSession == [kind |-> "unset", inst |-> 0]

\* DatabaseManager.__init__
ManagerInit ==
    [engine |-> 0, session_factory |-> 0, sqlite_db |-> 0, sqlite_conn |-> FALSE,
     inmemory_db |-> 0, is_using_primary |-> FALSE, is_using_sqlite |-> FALSE,
     alloc |-> 0, tried |-> <<>>]

\* --------------------------------------------------- db_manager.py helpers

\* A fallback that leaves the tier flags as they were.
InitializeFallbackDatabase_KeepFlags(m) ==
    [m EXCEPT !.inmemory_db = m.alloc + 1,
              !.alloc = m.alloc + 1,
              !.tried = Append(m.tried, "tertiary")]

\* _initialize_fallback_database: a new, empty InMemoryDB; both flags cleared.
InitializeFallbackDatabase(m) ==
    [m EXCEPT !.inmemory_db = m.alloc + 1,
              !.alloc = m.alloc + 1,
              !.is_using_primary = FALSE,
              !.is_using_sqlite = FALSE,
              !.tried = Append(m.tried, "tertiary")]

\* _init_sqlite up to its first await: self.sqlite_db = SQLiteDB(path).
InitSqliteBegin(m) ==
    [m EXCEPT !.sqlite_db = m.alloc + 1,
              !.sqlite_conn = FALSE,
              !.alloc = m.alloc + 1,
              !.tried = Append(m.tried, "secondary")]

\* _init_sqlite that leaves is_using_primary as it was.
InitSqliteSuccess_KeepPrimaryFlag(m) ==
    [m EXCEPT !.sqlite_conn = TRUE,
              !.is_using_sqlite = TRUE]

\* _init_sqlite after connect() returned.
InitSqliteSuccess(m) ==
    [m EXCEPT !.sqlite_conn = TRUE,
              !.is_using_sqlite = TRUE,
              !.is_using_primary = FALSE]

\* The except branches of _initialize_sqlite_database, after disconnect().
InitSqliteFailed(m) ==
    [m EXCEPT !.sqlite_db = 0,
              !.sqlite_conn = FALSE,
              !.is_using_sqlite = FALSE]

\* A _cleanup_engine that forgets the session factory only.
CleanupEngineFinally_KeepEngine(m) ==
    [m EXCEPT !.session_factory = 0]

\* The finally branch of _cleanup_engine.
CleanupEngineFinally(m) ==
    [m EXCEPT !.engine = 0, !.session_factory = 0]

\* _initialize_primary_database, from the session factory to return True.
InitPrimarySuccess(m) ==
    [m EXCEPT !.is_using_primary = TRUE]

\* _try_initialize_databases once Primary and Secondary both returned False.
TryInitializeBothFailed(m) == InitializeFallbackDatabase(m)

\* initialize with no `except asyncio.TimeoutError` clause.
InitializeExcept_NoTimeoutClause(m, exc) ==
    IF exc = "timeout" THEN [m |-> m, raised |-> TRUE]
    ELSE [m |-> InitializeFallbackDatabase(m), raised |-> FALSE]

\* initialize whose timeout clause logs the warning and does nothing else.
InitializeExcept_LogOnly(m, exc) ==
    IF exc = "timeout" THEN [m |-> m, raised |-> FALSE]
    ELSE [m |-> InitializeFallbackDatabase(m), raised |-> FALSE]

\* The except clauses of initialize: exc is "timeout" or "error".
InitializeExcept(m, exc) ==
    [m |-> InitializeFallbackDatabase(m), raised |-> FALSE]

\* health_check()["database"] and get_connection_info()["database_type"].
HealthTier(m) ==
    IF m.is_using_primary THEN "postgresql"
    ELSE IF m.is_using_sqlite THEN "sqlite" ELSE "in-memory"

\* A health_check that reports a SQLiteDB without connection as unhealthy.
HealthStatus_StrictSqlite(m, alive) ==
    IF m.is_using_primary
    THEN (IF m.engine # 0 /\ alive THEN "healthy" ELSE "degraded")
    ELSE IF m.is_using_sqlite
    THEN (IF m.sqlite_db # 0 /\ m.sqlite_conn THEN "healthy" ELSE "unhealthy")
    ELSE "degraded"

\* health_check()["status"] with a Primary round trip that answers `alive`.
HealthStatus(m, alive) ==
    IF m.is_using_primary
    THEN (IF m.engine # 0 /\ alive THEN "healthy" ELSE "degraded")
    ELSE IF m.is_using_sqlite
    THEN (IF m.sqlite_db # 0 /\ m.sqlite_conn THEN "healthy" ELSE "degraded")
    ELSE "degraded"

\* The content of the store an adapter of this kind reads and writes.
DataOf(kind) ==
    IF kind = "primary" THEN remoteData
    ELSE IF kind = "sqlite" THEN fileData
    ELSE IF kind = "memory" THEN memData ELSE {}

\* An InMemoryDB whose constructor takes over the dicts of the one before.
MemFollows_KeepData ==
    memData' = memData

\* A new InMemoryDB starts empty; the held one keeps its content.
MemFollows ==
    memData' = IF mgr'.inmemory_db = mgr.inmemory_db THEN memData ELSE {}

\* _create_tables of SQLiteDB.connect: every statement is CREATE TABLE IF NOT
\* EXISTS (or CREATE INDEX IF NOT EXISTS), so the rows of an existing file stay.
CreateTables_Recreate(rows) == {}

CreateTables(rows) == rows

\* cycle.phase: "run" (no shutdown since the last write or plain initialize),
\* "closing" (shutdown or reinitialize in progress), "down" (shutdown
\* returned), "opening" (initialize in progress after a shutdown), "up"
\* (that initialize, or a reinitialize, returned and nothing was written
\* since).  cycle.kept is what each tier stored when the shutdown was called.
NoKept == [mem |-> {}, file |-> {}, remote |-> {}]

NoCycle == [phase |-> "run", kept |-> NoKept]

\* The caller enters initialize, shutdown or reinitialize.
CycleCall(c, called) ==
    IF called = "initialize"
    THEN (IF c.phase = "down" THEN [c EXCEPT !.phase = "opening"] ELSE NoCycle)
    ELSE [phase |-> "closing",
          kept |-> [mem |-> memData, file |-> fileData, remote |-> remoteData]]

\* Call o returns to its caller.
CycleReturn(c, o) ==
    IF o = "shutdown" THEN [c EXCEPT !.phase = "down"]
    ELSE IF o = "reinitialize" THEN [c EXCEPT !.phase = "up"]
    ELSE IF o = "initialize" /\ c.phase = "opening" THEN [c EXCEPT !.phase = "up"]
    ELSE c

\* The class and module state around the manager object. instance is
\* DatabaseManager._instance and global is the module's _db_manager (0 for
\* None, else the number of the object); initialized is the _initialized the
\* object under _instance sees; made counts the objects object.__new__
\* created; returned is what the latest DatabaseManager() or
\* get_db_manager() handed back.  SingleStart is the process after its
\* first DatabaseManager().
SingleStart ==
    [instance |-> 1, initialized |-> TRUE, global |-> 0, made |-> 1, returned |-> 1]

\* DatabaseManager.__new__: [c, obj] with obj the object handed to __init__.
DatabaseManagerNew(c) ==
    IF c.instance = 0
    THEN [c |-> [c EXCEPT !.instance = c.made + 1, !.made = c.made + 1,
                          !.initialized = FALSE],
          obj |-> c.made + 1]
    ELSE [c |-> c, obj |-> c.instance]

\* An __init__ without the `if self._initialized: return` guard.
DatabaseManagerInit_NoGuard(c, m) ==
    [c |-> [c EXCEPT !.initialized = TRUE],
     m |-> [ManagerInit EXCEPT !.alloc = m.alloc]]

\* DatabaseManager.__init__ on the object under _instance, whose fields are
\* m: [c, m].  The numbering of constructed adapters (alloc) is the
\* model's, not a field, and goes on.
DatabaseManagerInit(c, m) ==
    IF c.initialized THEN [c |-> c, m |-> m]
    ELSE [c |-> [c EXCEPT !.initialized = TRUE],
          m |-> [ManagerInit EXCEPT !.alloc = m.alloc]]

\* DatabaseManager(): __new__, then __init__ on what it returned.
Construction(c, m) ==
    LET n == DatabaseManagerNew(c)
        i == DatabaseManagerInit(n.c, m)
    IN [c |-> [i.c EXCEPT !.returned = n.obj], m |-> i.m]

\* The process before any manager call.
ManagerStart ==
    /\ mgr = ManagerInit
    /\ memData = {}
    /\ fileData = {}
    /\ remoteData = {}
    /\ pc = "idle"
    /\ op = "none"
    /\ lastOp = "none"
    /\ force = FALSE
    /\ pri = "unconfigured"
    /\ sec = "ok"
    /\ timedOut = FALSE
    /\ raised = FALSE
    /\ session = NoSession
    /\ snap = [valid |-> FALSE, tier |-> "in-memory", kind |-> "unset", inst |-> 0,
               data |-> {}]
    /\ cycle = NoCycle
    /\ single = SingleStart

\* ------------------------------------------------ control-flow fragments
\* Each returns [m |-> manager after the code that runs without suspending,
\*               pc |-> the await point reached, "idle" when the call returned].

\* _try_initialize_databases after _initialize_primary_database returned
\* False: _initialize_sqlite_database runs up to `await connect()`.
AfterPrimaryFailed(m) == [m |-> InitSqliteBegin(m), pc |-> "sq_connect"]

\* initialize -> _try_initialize_databases -> _initialize_primary_database,
\* up to the connectivity probe (or past it when no URL is configured).
BeginInit(m, p) ==
    LET m1 == [m EXCEPT !.tried = <<"primary">>]
    IN IF p = "unconfigured" THEN AfterPrimaryFailed(m1)
       ELSE [m |-> m1, pc |-> "pri_probe"]

\* `await self._cleanup_engine()` on a failure path of the Primary attempt:
\* suspends in engine.dispose() only when an engine is held.
PrimaryFailure(m) ==
    IF m.engine # 0 THEN [m |-> m, pc |-> "pri_dispose"] ELSE AfterPrimaryFailed(m)

\* The except branches of _initialize_sqlite_database: disconnect() suspends
\* in close() only when the connection was opened; then the fallback.
SqliteFailure(m) ==
    IF m.sqlite_db # 0 /\ m.sqlite_conn THEN [m |-> m, pc |-> "sq_cleanup"]
    ELSE [m |-> TryInitializeBothFailed(InitSqliteFailed(m)), pc |-> "idle"]

\* A reinitialize that does not look at force_fallback.
AfterShutdown_IgnoreForce(m, o, f, p) ==
    IF o = "reinitialize" THEN BeginInit(m, p) ELSE [m |-> m, pc |-> "idle"]

\* reinitialize after `await self.shutdown()`; a plain shutdown returns.
AfterShutdown(m, o, f, p) ==
    IF o = "reinitialize"
    THEN (IF f THEN [m |-> InitializeFallbackDatabase(m), pc |-> "idle"]
          ELSE BeginInit(m, p))
    ELSE [m |-> m, pc |-> "idle"]

\* A shutdown that ends after the SQLite block.
ShutdownTail_KeepFallback(m, o, f, p) ==
    AfterShutdown(m, o, f, p)

\* shutdown, from `if self.inmemory_db` to its end.
ShutdownTail(m, o, f, p) ==
    AfterShutdown([m EXCEPT !.inmemory_db = 0,
                            !.is_using_primary = FALSE,
                            !.is_using_sqlite = FALSE], o, f, p)

\* shutdown, from `if self.sqlite_db`: disconnect() suspends in close() only
\* when the connection is open.
ShutdownSqlite(m, o, f, p) ==
    IF m.sqlite_db # 0 /\ m.sqlite_conn THEN [m |-> m, pc |-> "sd_disconnect"]
    ELSE ShutdownTail([m EXCEPT !.sqlite_db = 0, !.sqlite_conn = FALSE], o, f, p)

\* shutdown from its start: _cleanup_engine suspends in engine.dispose().
ShutdownBegin(m, o, f, p) ==
    IF m.engine # 0 THEN [m |-> m, pc |-> "sd_dispose"] ELSE ShutdownSqlite(m, o, f, p)

\* State of the task cancelled by wait_for at await point p: CancelledError
\* is no Exception, so only finally blocks and the bare except run.
CancelAt(m, p) ==
    IF p = "pri_dispose" THEN CleanupEngineFinally(m)
    ELSE IF p = "sq_cleanup" THEN InitSqliteFailed(m)
    ELSE m

\* What get_session yields in manager state m, creating nothing.
HandleOf(m) ==
    IF m.is_using_primary /\ m.session_factory # 0
    THEN [kind |-> "primary", inst |-> m.session_factory]
    ELSE IF m.is_using_sqlite THEN [kind |-> "sqlite", inst |-> m.sqlite_db]
    ELSE [kind |-> "memory", inst |-> m.inmemory_db]

NoSnap == [valid |-> FALSE, tier |-> "in-memory", kind |-> "unset", inst |-> 0, data |-> {}]

Snapshot ==
    LET h == HandleOf(mgr)
    IN [valid |-> TRUE, tier |-> HealthTier(mgr), kind |-> h.kind, inst |-> h.inst,
        data |-> DataOf(h.kind)]

\* The call in progress moves to r.pc with manager r.m; "idle" returns it.
Goto(r) ==
    /\ mgr' = r.m
    /\ pc' = r.pc
    /\ IF r.pc = "idle" THEN lastOp' = op /\ op' = "none"
       ELSE UNCHANGED <<lastOp, op>>
    /\ cycle' = IF r.pc = "idle" THEN CycleReturn(cycle, op) ELSE cycle
    /\ MemFollows

\* ------------------------------------------------------------- actions

\* await db_manager.initialize()
InitializeCall(p, s) ==
    /\ pc = "idle"
    /\ mgr.alloc < MaxAlloc
    /\ LET r == BeginInit(mgr, p)
           c == CycleCall(cycle, "initialize")
       IN /\ mgr' = r.m /\ pc' = r.pc
          /\ cycle' = IF r.pc = "idle" THEN CycleReturn(c, "initialize") ELSE c
    /\ op' = "initialize"
    /\ pri' = p
    /\ sec' = s
    /\ timedOut' = FALSE
    /\ session' = NoSession
    /\ snap' = IF lastOp \in {"initialize", "reinitialize"} THEN Snapshot ELSE NoSnap
    /\ MemFollows
    /\ UNCHANGED <<fileData, remoteData, lastOp, force, raised>>
    /\ UNCHANGED single
    /\ UNCHANGED storeVars

\* validate_postgres_connection answered; create_async_engine.
PriProbeDone ==
    /\ pc = "pri_probe"
    /\ pri # "hang"
    /\ Goto(IF pri = "probe_fail" THEN AfterPrimaryFailed(mgr)
            ELSE IF pri = "engine_exc" THEN PrimaryFailure(mgr)
            ELSE [m |-> [mgr EXCEPT !.engine = mgr.alloc + 1, !.alloc = mgr.alloc + 1],
                  pc |-> "pri_test"])
    /\ UNCHANGED <<fileData, remoteData, force, pri, sec, timedOut, raised, session, snap>>
    /\ UNCHANGED single
    /\ UNCHANGED storeVars

\* _test_connection answered; sessionmaker.
PriTestDone ==
    /\ pc = "pri_test"
    /\ Goto(IF pri = "test_fail" THEN PrimaryFailure(mgr)
            ELSE [m |-> [mgr EXCEPT !.session_factory = mgr.engine], pc |-> "pri_tables"])
    /\ UNCHANGED <<fileData, remoteData, force, pri, sec, timedOut, raised, session, snap>>
    /\ UNCHANGED single
    /\ UNCHANGED storeVars

\* _create_tables returned or raised.
PriTablesDone ==
    /\ pc = "pri_tables"
    /\ Goto(IF pri = "tables_exc" THEN PrimaryFailure(mgr)
            ELSE [m |-> InitPrimarySuccess(mgr), pc |-> "idle"])
    /\ UNCHANGED <<fileData, remoteData, force, pri, sec, timedOut, raised, session, snap>>
    /\ UNCHANGED single
    /\ UNCHANGED storeVars

\* engine.dispose() of _cleanup_engine returned or raised.
PriDisposeDone ==
    /\ pc = "pri_dispose"
    /\ Goto(AfterPrimaryFailed(CleanupEngineFinally(mgr)))
    /\ UNCHANGED <<fileData, remoteData, force, pri, sec, timedOut, raised, session, snap>>
    /\ UNCHANGED single
    /\ UNCHANGED storeVars

\* aiosqlite.connect of SQLiteDB.connect returned or raised.
SqConnectDone ==
    /\ pc = "sq_connect"
    /\ sec # "hang"
    /\ Goto(IF sec = "connect_exc" THEN SqliteFailure(mgr)
            ELSE [m |-> [mgr EXCEPT !.sqlite_conn = TRUE], pc |-> "sq_tables"])
    /\ UNCHANGED <<fileData, remoteData, force, pri, sec, timedOut, raised, session, snap>>
    /\ UNCHANGED single
    /\ UNCHANGED storeVars

\* The PRAGMAs and _create_tables of SQLiteDB.connect returned or raised.
SqTablesDone ==
    /\ pc = "sq_tables"
    /\ sec # "hang_tables"
    /\ Goto(IF sec = "tables_exc" THEN SqliteFailure(mgr)
            ELSE [m |-> InitSqliteSuccess(mgr), pc |-> "idle"])
    /\ fileData' = IF sec = "tables_exc" THEN fileData ELSE CreateTables(fileData)
    /\ UNCHANGED <<remoteData, force, pri, sec, timedOut, raised, session, snap>>
    /\ UNCHANGED single
    /\ UNCHANGED storeVars

\* asyncio.wait_for(_init_sqlite(), timeout=10.0) expired.
SqSubTimeout ==
    /\ pc \in {"sq_connect", "sq_tables"}
    /\ sec \in {"hang", "hang_tables"}
    /\ Goto(SqliteFailure(mgr))
    /\ UNCHANGED <<fileData, remoteData, force, pri, sec, timedOut, raised, session, snap>>
    /\ UNCHANGED single
    /\ UNCHANGED storeVars

\* disconnect() in an except branch of _initialize_sqlite_database ended.
SqCleanupDone ==
    /\ pc = "sq_cleanup"
    /\ Goto([m |-> TryInitializeBothFailed(InitSqliteFailed(mgr)), pc |-> "idle"])
    /\ UNCHANGED <<fileData, remoteData, force, pri, sec, timedOut, raised, session, snap>>
    /\ UNCHANGED single
    /\ UNCHANGED storeVars

\* asyncio.wait_for(self._try_initialize_databases(), timeout) expired.
TotalTimeout ==
    /\ pc \in InitPcs
    /\ LET r == InitializeExcept(CancelAt(mgr, pc), "timeout")
       IN /\ mgr' = r.m
          /\ raised' = (raised \/ r.raised)
    /\ pc' = "idle"
    /\ lastOp' = op
    /\ op' = "none"
    /\ timedOut' = TRUE
    /\ cycle' = CycleReturn(cycle, op)
    /\ MemFollows
    /\ UNCHANGED <<fileData, remoteData, force, pri, sec, session, snap>>
    /\ UNCHANGED single
    /\ UNCHANGED storeVars

\* await db_manager.shutdown()
ShutdownCall ==
    /\ pc = "idle"
    /\ LET r == ShutdownBegin(mgr, "shutdown", FALSE, pri)
       IN /\ mgr' = r.m
          /\ pc' = r.pc
          /\ IF r.pc = "idle" THEN lastOp' = "shutdown" /\ op' = "none"
             ELSE lastOp' = lastOp /\ op' = "shutdown"
          /\ cycle' = IF r.pc = "idle"
                      THEN CycleReturn(CycleCall(cycle, "shutdown"), "shutdown")
                      ELSE CycleCall(cycle, "shutdown")
    /\ session' = NoSession
    /\ snap' = NoSnap
    /\ MemFollows
    /\ UNCHANGED <<fileData, remoteData, force, pri, sec, timedOut, raised>>
    /\ UNCHANGED single
    /\ UNCHANGED storeVars

\* await db_manager.reinitialize(force_fallback=f)
ReinitializeCall(f, p, s) ==
    /\ pc = "idle"
    /\ mgr.alloc < MaxAlloc
    /\ LET r == ShutdownBegin([mgr EXCEPT !.tried = <<>>], "reinitialize", f, p)
       IN /\ mgr' = r.m
          /\ pc' = r.pc
          /\ IF r.pc = "idle" THEN lastOp' = "reinitialize" /\ op' = "none"
             ELSE lastOp' = lastOp /\ op' = "reinitialize"
          /\ cycle' = IF r.pc = "idle"
                      THEN CycleReturn(CycleCall(cycle, "reinitialize"), "reinitialize")
                      ELSE CycleCall(cycle, "reinitialize")
    /\ force' = f
    /\ pri' = p
    /\ sec' = s
    /\ timedOut' = FALSE
    /\ session' = NoSession
    /\ snap' = NoSnap
    /\ MemFollows
    /\ UNCHANGED <<fileData, remoteData, raised>>
    /\ UNCHANGED single
    /\ UNCHANGED storeVars

\* engine.dispose() of shutdown's _cleanup_engine returned or raised.
SdDisposeDone ==
    /\ pc = "sd_dispose"
    /\ Goto(ShutdownSqlite(CleanupEngineFinally(mgr), op, force, pri))
    /\ UNCHANGED <<fileData, remoteData, force, pri, sec, timedOut, raised, session, snap>>
    /\ UNCHANGED single
    /\ UNCHANGED storeVars

\* sqlite_db.disconnect() of shutdown returned or raised.
SdDisconnectDone ==
    /\ pc = "sd_disconnect"
    /\ Goto(ShutdownTail([mgr EXCEPT !.sqlite_db = 0, !.sqlite_conn = FALSE],
                         op, force, pri))
    /\ UNCHANGED <<fileData, remoteData, force, pri, sec, timedOut, raised, session, snap>>
    /\ UNCHANGED single
    /\ UNCHANGED storeVars

\* A get_session that yields what the manager holds, creating nothing.
GetSession_NoLazy(s) ==
    /\ pc \in {"idle"} \cup InitPcs \cup ShutdownPcs
    /\ LET m1 == mgr
           h == HandleOf(m1)
       IN /\ (m1.alloc # mgr.alloc => mgr.alloc < MaxAlloc)
          /\ mgr' = [m1 EXCEPT !.tried = mgr.tried]
          /\ session' = IF h.inst = 0 THEN [kind |-> "none", inst |-> 0] ELSE h
          /\ fileData' = IF m1.sqlite_db # mgr.sqlite_db /\ m1.sqlite_conn
                         THEN CreateTables(fileData) ELSE fileData
    /\ MemFollows
    /\ UNCHANGED <<remoteData, pc, op, lastOp, force, pri, sec, timedOut,
                   raised, snap, cycle>>
    /\ UNCHANGED single
    /\ UNCHANGED storeVars

\* async with db_manager.get_session() as session; s is the outcome of the
\* lazy _initialize_sqlite_database of the SQLite branch.
GetSession(s) ==
    /\ pc \in {"idle"} \cup InitPcs \cup ShutdownPcs
    /\ LET m1 == IF mgr.is_using_primary /\ mgr.session_factory # 0 THEN mgr
                 ELSE IF mgr.is_using_sqlite
                 THEN (IF mgr.sqlite_db # 0 THEN mgr
                       ELSE IF s = "ok" THEN InitSqliteSuccess(InitSqliteBegin(mgr))
                       ELSE InitSqliteFailed(InitSqliteBegin(mgr)))
                 ELSE (IF mgr.inmemory_db # 0 THEN mgr
                       ELSE InitializeFallbackDatabase(mgr))
           h == HandleOf(m1)
       IN /\ (m1.alloc # mgr.alloc => mgr.alloc < MaxAlloc)
          /\ mgr' = [m1 EXCEPT !.tried = mgr.tried]
          /\ session' = IF h.inst = 0 THEN [kind |-> "none", inst |-> 0] ELSE h
          /\ fileData' = IF m1.sqlite_db # mgr.sqlite_db /\ m1.sqlite_conn
                         THEN CreateTables(fileData) ELSE fileData
    /\ MemFollows
    /\ UNCHANGED <<remoteData, pc, op, lastOp, force, pri, sec, timedOut,
                   raised, snap, cycle>>
    /\ UNCHANGED single
    /\ UNCHANGED storeVars

\* DatabaseManager() somewhere in the process; it does not suspend.
Construct ==
    /\ LET r == Construction(single, mgr)
       IN /\ single' = r.c
          /\ mgr' = r.m
    /\ MemFollows
    /\ UNCHANGED <<fileData, remoteData, pc, op, lastOp, force, pri, sec, timedOut,
                   raised, session, snap, cycle>>
    /\ UNCHANGED storeVars

\* get_db_manager()
GetDbManager ==
    /\ LET r == IF single.global = 0 THEN Construction(single, mgr)
                ELSE [c |-> single, m |-> mgr]
           g == IF single.global = 0 THEN r.c.returned ELSE single.global
       IN /\ single' = [r.c EXCEPT !.global = g, !.returned = g]
          /\ mgr' = r.m
    /\ MemFollows
    /\ UNCHANGED <<fileData, remoteData, pc, op, lastOp, force, pri, sec, timedOut,
                   raised, session, snap, cycle>>
    /\ UNCHANGED storeVars

\* session.add(obj); await session.commit() through the yielded handle,
\* inside the async with block, while the manager holds the adapter.  A
\* SQLiteDB without connection commits nothing (`if self._db:`).
Write(i) ==
    /\ pc = "idle"
    /\ session.kind \in {"primary", "sqlite", "memory"}
    /\ session = HandleOf(mgr)
    /\ memData' = IF session.kind = "memory" THEN memData \cup {i} ELSE memData
    /\ fileData' = IF session.kind = "sqlite" /\ mgr.sqlite_conn
                   THEN fileData \cup {i} ELSE fileData
    /\ remoteData' = IF session.kind = "primary" THEN remoteData \cup {i} ELSE remoteData
    /\ snap' = NoSnap
    /\ cycle' = IF cycle.phase = "up" THEN NoCycle ELSE cycle
    /\ UNCHANGED <<mgr, pc, op, lastOp, force, pri, sec, timedOut, raised, session>>
    /\ UNCHANGED single
    /\ UNCHANGED storeVars

(***************************************************************************)
(* Part 2 (StoreSpec): the two emulated adapters, InMemoryDB (Tertiary,    *)
(* inmemory.py) and SQLiteDB (Secondary, sqlite_db.py), driven by one      *)
(* caller that issues the same session calls to both.                      *)
(*                                                                         *)
(* An entity is [kind, id, key, flag, ref]: kind is the model class of     *)
(* models.py, id = 0 is "no id yet", key is the value of the logical key   *)
(* column (email / token / name / name+version), flag is the boolean       *)
(* column revoked / consumed ("unset" when never assigned) and ref is the  *)
(* value of the foreign-key columns user_id / role_id.                     *)
(***************************************************************************)

MaxAdds == 3           \* add / create_api calls in one behaviour
MaxId == 1             \* largest caller-supplied id
MaxKey == 2            \* distinct key values

Keys == 1..MaxKey

Kinds == {"User", "RefreshToken", "OTP", "API", "Role", "Permission", "UserRole",
          "Connector", "Secret"}

\* Attribute names of an instance of each model class (models.py).
Attrs(kind) ==
    CASE kind = "User" ->
           {"id", "email", "hashed_password", "is_active", "is_superuser", "roles",
            "created_at", "updated_at", "refresh_tokens"}
      [] kind = "RefreshToken" ->
           {"id", "token", "user_id", "created_at", "expires_at", "revoked", "user"}
      [] kind = "OTP" ->
           {"id", "email", "otp_hash", "created_at", "expires_at", "attempts",
            "consumed", "transport"}
      [] kind = "API" ->
           {"id", "name", "version", "description", "owner_id", "type", "resource",
            "config", "created_at", "updated_at", "schemas", "auth_policies",
            "rate_limits", "connectors"}
      [] kind = "Connector" ->
           {"id", "api_id", "name", "type", "config", "created_at", "updated_at", "api"}
      [] kind = "Secret" ->
           {"id", "name", "value", "description", "tags", "created_at", "updated_at",
            "key", "encrypted_value"}
      [] kind = "Permission" ->
           {"id", "name", "resource", "action", "description", "created_at"}
      [] kind = "Role" ->
           {"id", "name", "description", "permissions", "created_at", "updated_at"}
      [] kind = "UserRole" ->
           {"id", "user_id", "role_id", "assigned_at", "user", "role"}

\* The model fields an entity kind carries: every kind but UserRole has a
\* key column, RefreshToken.revoked and OTP.consumed are the flags, and
\* RefreshToken.user_id, UserRole.user_id / role_id are the references.
HasField(kind, f) ==
    CASE f = "id" -> TRUE
      [] f = "key" -> kind # "UserRole"
      [] f = "flag" -> kind \in {"RefreshToken", "OTP"}
      [] f = "ref" -> kind \in {"RefreshToken", "UserRole"}
      [] OTHER -> FALSE

\* Entities a caller builds: referencing kinds point at parent id 1.
EntitiesOf(kind) ==
    [kind : {kind},
     id : 0..MaxId,
     key : IF HasField(kind, "key") THEN Keys ELSE {0},
     flag : IF kind = "RefreshToken" THEN {"unset", "true", "false"} ELSE {"unset"},
     ref : IF HasField(kind, "ref") THEN {1} ELSE {0}]

\* Kinds referenced by the foreign keys of a kind.
Parents(kind) ==
    CASE kind = "RefreshToken" -> {"User"}
      [] kind = "UserRole" -> {"User", "Role"}
      [] OTHER -> {}

\* Each behaviour works on one entity kind and the kinds it references.
Scopes == {{k} \cup Parents(k) : k \in Kinds}

\* Python truth value of a flag attribute (None and False are falsy).
Truthy(flag) == flag = "true"

\* ---------------------------------------------------------- InMemoryDB

MemStores == {"_apis", "_users", "_refresh_tokens", "_otps", "_roles", "_permissions",
              "_user_roles"}

\* InMemoryDB.__init__: empty dicts (kept in insertion order), counters at 1.
MemInit == [maps |-> [st \in MemStores |-> <<>>], next |-> [st \in MemStores |-> 1]]

\* `sub in type_name` for the class names of models.py.
NameContains(kind, sub) ==
    CASE sub = "User" -> kind \in {"User", "UserRole"}
      [] sub = "Role" -> kind \in {"Role", "UserRole"}
      [] OTHER -> kind = sub

\* The if/elif chain of InMemoryDB.add over the class name.
MemAddStore(kind) ==
    IF NameContains(kind, "User") THEN "_users"
    ELSE IF NameContains(kind, "OTP") THEN "_otps"
    ELSE IF NameContains(kind, "RefreshToken") THEN "_refresh_tokens"
    ELSE IF NameContains(kind, "Role") THEN "_roles"
    ELSE IF NameContains(kind, "Permission") THEN "_permissions"
    ELSE IF NameContains(kind, "UserRole") THEN "_user_roles"
    ELSE "none"

\* d[e.id] = e on a dict kept as its sequence of values.
DictPut(d, e) ==
    IF \E i \in 1..Len(d) : d[i].id = e.id
    THEN [i \in 1..Len(d) |-> IF d[i].id = e.id THEN e ELSE d[i]]
    ELSE Append(d, e)

\* InMemoryDB.add
MemAdd(db, e) ==
    LET st == MemAddStore(e.kind)
    IN IF st = "none" THEN db
       ELSE IF e.id = 0
       THEN [maps |-> [db.maps EXCEPT ![st] = DictPut(@, [e EXCEPT !.id = db.next[st]])],
             next |-> [db.next EXCEPT ![st] = @ + 1]]
       ELSE [db EXCEPT !.maps[st] = DictPut(@, e)]

\* The id InMemoryDB.add gives to e, 0 when it gives none (e has one, or no
\* branch of the chain takes its class).
MemGivenId(db, e) ==
    IF e.id = 0 /\ MemAddStore(e.kind) # "none" THEN db.next[MemAddStore(e.kind)] ELSE 0

\* InMemoryDB.create_api: [db, err]
MemCreateApi(db, k) ==
    IF \E i \in 1..Len(db.maps["_apis"]) : db.maps["_apis"][i].key = k
    THEN [db |-> db, err |-> "ValueError"]
    ELSE [db |-> [maps |-> [db.maps EXCEPT !["_apis"] =
                              Append(@, [kind |-> "API", id |-> db.next["_apis"],
                                         key |-> k, flag |-> "unset", ref |-> 0])],
                  next |-> [db.next EXCEPT !["_apis"] = @ + 1]],
          err |-> "none"]

\* del d[id] on a dict kept as its sequence of values.
DictDel(d, id) == SelectSeq(d, LAMBDA o : o.id # id)

DictHas(d, id) == \E i \in 1..Len(d) : d[i].id = id

\* The dicts in the order InMemoryDB.delete looks the id up.
DeleteOrder ==
    <<"_apis", "_users", "_refresh_tokens", "_otps", "_roles", "_permissions", "_user_roles">>

\* InMemoryDB.delete(obj): [db, err].  The first dict holding obj.id loses
\* that entry, whatever obj is; delete_api then formats api.name for its log.
MemDelete(db, obj) ==
    LET hits == {i \in 1..Len(DeleteOrder) : DictHas(db.maps[DeleteOrder[i]], obj.id)}
    IN IF hits = {} THEN [db |-> db, err |-> "none"]
       ELSE LET st == DeleteOrder[CHOOSE i \in hits : \A j \in hits : i <= j]
            IN [db |-> [db EXCEPT !.maps[st] = DictDel(@, obj.id)],
                err |-> IF st = "_apis" /\ "name" \notin Attrs(obj.kind)
                        THEN "AttributeError" ELSE "none"]

\* The entity-to-dict chain of InMemoryDB.execute.
\* InMemoryDB.commit, flush and refresh are `pass`; rollback only logs.
MemCommit(db) == db

MemFlush(db) == db

MemRefresh(db, obj) == db

MemRollback_Undo(db) == MemInit

MemRollback(db) == db

MemExecStore_ElseUsers(kind) ==
    CASE kind = "User" -> "_users"
      [] kind = "OTP" -> "_otps"
      [] kind = "RefreshToken" -> "_refresh_tokens"
      [] kind = "Role" -> "_roles"
      [] kind = "Permission" -> "_permissions"
      [] kind = "UserRole" -> "_user_roles"
      [] OTHER -> "_users"

MemExecStore(kind) ==
    CASE kind = "User" -> "_users"
      [] kind = "OTP" -> "_otps"
      [] kind = "RefreshToken" -> "_refresh_tokens"
      [] kind = "Role" -> "_roles"
      [] kind = "Permission" -> "_permissions"
      [] kind = "UserRole" -> "_user_roles"
      [] OTHER -> "none"

FieldValue(o, f) ==
    CASE f = "key" -> o.key
      [] f = "flag" -> o.flag
      [] f = "ref" -> o.ref
      [] OTHER -> o.id

\* One criterion of _where_criteria against one object (InMemoryDB.execute).
\* c.op = "not" is a UnaryExpression over c.field; c.op = "or" is a
\* BooleanClauseList, which has neither element nor left/right, so no
\* branch looks at it; any other c.op is a comparison of c.field with
\* c.value, whose operator the code never reads.
MemCriterion(o, c) ==
    IF c.op = "not"
    THEN ~(HasField(o.kind, c.field) /\ Truthy(FieldValue(o, c.field)))
    ELSE IF c.op = "or" THEN TRUE
    ELSE ~(HasField(o.kind, c.field) /\ FieldValue(o, c.field) # c.value)

\* InMemoryDB.execute(select(kind).where(*preds)).scalars().all()
MemExecute(db, kind, preds) ==
    LET st == MemExecStore(kind)
        all == IF st = "none" THEN <<>> ELSE db.maps[st]
    IN SelectSeq(all, LAMBDA o : \A i \in 1..Len(preds) : MemCriterion(o, preds[i]))


\* ------------------------------------------------------------ SQLiteDB

SqlTables == {"users", "refresh_tokens", "otps", "apis", "roles", "permissions",
              "user_roles", "connectors", "secrets"}

\* A connected SQLiteDB on a new file: the tables of _create_tables, an
\* empty sqlite_sequence, nothing staged.  `saved` is the committed content.
SqlInit ==
    [tables |-> [t \in SqlTables |-> {}],
     seq |-> [t \in SqlTables |-> 0],
     pending |-> <<>>,
     saved |-> [tables |-> [t \in SqlTables |-> {}], seq |-> [t \in SqlTables |-> 0]]]

\* The hasattr chain of _insert_or_update_object over an object's attributes.
InsertOrUpdateTable_RoleFirst(attrs) ==
    IF "hashed_password" \in attrs THEN "users"
    ELSE IF {"name", "version"} \subseteq attrs THEN "apis"
    ELSE IF "otp_hash" \in attrs THEN "otps"
    ELSE IF {"token", "user_id"} \subseteq attrs THEN "refresh_tokens"
    ELSE IF {"type", "config"} \subseteq attrs /\ "version" \notin attrs THEN "connectors"
    ELSE IF {"name", "value"} \subseteq attrs THEN "secrets"
    ELSE IF {"name", "description"} \subseteq attrs /\ "version" \notin attrs THEN "roles"
    ELSE IF {"resource", "action"} \subseteq attrs /\ "version" \notin attrs
    THEN "permissions"
    ELSE IF {"user_id", "role_id"} \subseteq attrs THEN "user_roles"
    ELSE "none"

InsertOrUpdateTable(attrs) ==
    IF "hashed_password" \in attrs THEN "users"
    ELSE IF {"name", "version"} \subseteq attrs THEN "apis"
    ELSE IF "otp_hash" \in attrs THEN "otps"
    ELSE IF {"token", "user_id"} \subseteq attrs THEN "refresh_tokens"
    ELSE IF {"type", "config"} \subseteq attrs /\ "version" \notin attrs THEN "connectors"
    ELSE IF {"name", "value"} \subseteq attrs THEN "secrets"
    ELSE IF {"resource", "action"} \subseteq attrs /\ "version" \notin attrs
    THEN "permissions"
    ELSE IF {"name", "description"} \subseteq attrs /\ "version" \notin attrs THEN "roles"
    ELSE IF {"user_id", "role_id"} \subseteq attrs THEN "user_roles"
    ELSE "none"

\* Columns of the schema of _create_tables, in the model's field names.
SqlHasColumn(t, f) ==
    CASE f = "id" -> TRUE
      [] f = "key" -> t # "user_roles"
      [] f = "flag" -> t \in {"refresh_tokens", "otps"}
      [] f = "ref" -> t \in {"refresh_tokens", "user_roles"}
      [] OTHER -> FALSE

\* UNIQUE constraints: users.email, refresh_tokens.token, apis(name, version),
\* roles.name, permissions.name, secrets.name.
SqlUnique(t) == t \in {"users", "refresh_tokens", "apis", "roles", "permissions", "secrets"}

\* NOT NULL FOREIGN KEY columns (PRAGMA foreign_keys = ON in connect).
SqlReferences(t) ==
    CASE t = "refresh_tokens" -> {"users"}
      [] t = "user_roles" -> {"users", "roles"}
      [] OTHER -> {}

\* bool_to_int(value, default): None takes the default.
BoolToInt(flag, default) == IF flag = "unset" THEN default ELSE flag

\* The column values _insert_or_update_object binds for obj.
SqlRow(t, obj) ==
    [id |-> obj.id,
     key |-> IF SqlHasColumn(t, "key") THEN obj.key ELSE 0,
     flag |-> IF SqlHasColumn(t, "flag") THEN BoolToInt(obj.flag, "false") ELSE "unset",
     ref |-> IF SqlHasColumn(t, "ref") THEN obj.ref ELSE 0]

\* The statement would raise sqlite3.IntegrityError.
SqlViolates(s, t, row) ==
    \/ SqlUnique(t) /\ \E r \in s.tables[t] : r.id # row.id /\ r.key = row.key
    \/ \E p \in SqlReferences(t) : ~(\E r \in s.tables[p] : r.id = row.ref)

\* _insert_or_update_object: [s, obj, ok]; ok = FALSE when it raises.
InsertOrUpdateObject(s, obj) ==
    LET t == InsertOrUpdateTable(Attrs(obj.kind))
    IN IF t = "none" THEN [s |-> s, obj |-> obj, ok |-> TRUE]
       ELSE IF obj.id # 0
       THEN (LET row == SqlRow(t, obj)
             IN IF ~(\E r \in s.tables[t] : r.id = obj.id)
                THEN [s |-> s, obj |-> obj, ok |-> TRUE]
                ELSE IF SqlViolates(s, t, row) THEN [s |-> s, obj |-> obj, ok |-> FALSE]
                ELSE [s |-> [s EXCEPT !.tables[t] =
                                  {r \in @ : r.id # obj.id} \cup {row}],
                      obj |-> obj, ok |-> TRUE])
       ELSE (LET new == s.seq[t] + 1
                 row == SqlRow(t, [obj EXCEPT !.id = new])
             IN IF SqlViolates(s, t, row) THEN [s |-> s, obj |-> obj, ok |-> FALSE]
                ELSE [s |-> [s EXCEPT !.tables[t] = @ \cup {row}, !.seq[t] = new],
                      obj |-> [obj EXCEPT !.id = new], ok |-> TRUE])

\* The for loop of _process_pending_objects from index i on; the list is
\* cleared only when every object went through.
RECURSIVE ProcessPendingFrom(_, _)
ProcessPendingFrom(s, i) ==
    IF i > Len(s.pending) THEN [s |-> [s EXCEPT !.pending = <<>>], ok |-> TRUE]
    ELSE LET r == InsertOrUpdateObject(s, s.pending[i])
         IN IF ~r.ok THEN [s |-> r.s, ok |-> FALSE]
            ELSE ProcessPendingFrom([r.s EXCEPT !.pending[i] = r.obj], i + 1)

\* SQLiteDB.commit: [s, ok]
SqlCommit(s) ==
    LET r == ProcessPendingFrom(s, 1)
    IN IF r.ok
       THEN [s |-> [r.s EXCEPT !.saved = [tables |-> r.s.tables, seq |-> r.s.seq]],
             ok |-> TRUE]
       ELSE r

\* SQLiteDB.rollback
SqlRollback(s) ==
    [s EXCEPT !.tables = s.saved.tables, !.seq = s.saved.seq, !.pending = <<>>]

\* SQLiteDB.refresh: a SELECT by id whose columns are set on obj.
SqlRefresh(s, obj) == s

\* SQLiteDB.flush: the body of commit under another name. [s, ok]
SqlFlush(s) == SqlCommit(s)

\* SQLiteDB.create_api: [s, err]
SqlCreateApi(s, k) ==
    LET new == s.seq["apis"] + 1
        row == [id |-> new, key |-> k, flag |-> "unset", ref |-> 0]
    IN IF SqlViolates(s, "apis", row) THEN [s |-> s, err |-> "ValueError"]
       ELSE LET s1 == [s EXCEPT !.tables["apis"] = @ \cup {row}, !.seq["apis"] = new]
            IN [s |-> [s1 EXCEPT !.saved = [tables |-> s1.tables, seq |-> s1.seq]],
                err |-> "none"]

\* The hasattr chain of SQLiteDB.delete.
DeleteTable(attrs) ==
    IF {"name", "version"} \subseteq attrs THEN "apis"
    ELSE IF "hashed_password" \in attrs THEN "users"
    ELSE IF "token" \in attrs THEN "refresh_tokens"
    ELSE IF "otp_hash" \in attrs THEN "otps"
    ELSE "none"

\* DELETE FROM t WHERE id = ?, with the ON DELETE CASCADE of the tables
\* that reference t.
SqlDeleteRow(tables, t, id) ==
    [u \in SqlTables |->
        IF u = t THEN {r \in tables[u] : r.id # id}
        ELSE IF t \in SqlReferences(u) /\ (\E r \in tables[t] : r.id = id)
        THEN {r \in tables[u] : r.ref # id}
        ELSE tables[u]]

\* SQLiteDB.delete(obj): the DELETE runs at once and the transaction is
\* committed; staged objects stay staged.
SqlDelete(s, obj) ==
    LET t == DeleteTable(Attrs(obj.kind))
        tabs == IF t = "none" THEN s.tables ELSE SqlDeleteRow(s.tables, t, obj.id)
    IN [s EXCEPT !.tables = tabs, !.saved = [tables |-> tabs, seq |-> s.seq]]

\* table_map of SQLiteDB.execute.
SqlExecTable(kind) ==
    CASE kind = "User" -> "users"
      [] kind = "OTP" -> "otps"
      [] kind = "RefreshToken" -> "refresh_tokens"
      [] kind = "Role" -> "roles"
      [] kind = "Permission" -> "permissions"
      [] kind = "UserRole" -> "user_roles"
      [] kind = "API" -> "apis"
      [] OTHER -> "none"

\* One term of the generated WHERE clause: `attr = 0` for a UnaryExpression,
\* no term for a BooleanClauseList ("or"), `attr = ?` for a comparison with
\* any operator.
SqlCriterion(r, c) ==
    IF c.op = "not"
    THEN (IF c.field = "flag" THEN r.flag = "false" ELSE FieldValue(r, c.field) = 0)
    ELSE IF c.op = "or" THEN TRUE
    ELSE FieldValue(r, c.field) = c.value

\* The rows of a set in rowid order.
RECURSIVE RowsById(_)
RowsById(rows) ==
    IF rows = {} THEN <<>>
    ELSE LET r == CHOOSE x \in rows : \A y \in rows : x.id <= y.id
         IN <<r>> \o RowsById(rows \ {r})

\* SQLiteDB.execute(select(kind).where(*preds)).scalars().all(); a statement
\* naming a missing column raises inside the try and yields no rows.
SqlExecute(s, kind, preds) ==
    LET t == SqlExecTable(kind)
    IN IF t = "none" THEN <<>>
       ELSE IF \E i \in 1..Len(preds) :
                    preds[i].op # "or" /\ ~SqlHasColumn(t, preds[i].field) THEN <<>>
       ELSE RowsById({r \in s.tables[t] :
                        \A i \in 1..Len(preds) : SqlCriterion(r, preds[i])})

\* ------------------------------------------------------ ScalarResult
\* What an accessor hands back: [out |-> "value" | "none" | "raise", val].

Returned(r) == [out |-> "value", val |-> <<r>>]

ReturnedNone == [out |-> "none", val |-> <<>>]

Raised == [out |-> "raise", val |-> <<>>]

\* inmemory.ScalarResult.first
MemScalarFirst(rs) == IF rs # <<>> THEN Returned(rs[1]) ELSE ReturnedNone

\* inmemory.ScalarResult.all
MemScalarAll(rs) == rs

\* inmemory.ScalarResult.one
MemScalarOne(rs) ==
    IF Len(rs) = 0 THEN Raised
    ELSE IF Len(rs) > 1 THEN Raised
    ELSE Returned(rs[1])

\* inmemory.ScalarResult.one_or_none
MemScalarOneOrNone(rs) ==
    IF Len(rs) = 0 THEN ReturnedNone
    ELSE IF Len(rs) > 1 THEN Raised
    ELSE Returned(rs[1])

\* sqlite_db.ScalarResult.first
SqlScalarFirst(rs) == IF rs # <<>> THEN Returned(rs[1]) ELSE ReturnedNone

\* sqlite_db.ScalarResult.all
SqlScalarAll(rs) == rs

\* sqlite_db.ScalarResult.one
SqlScalarOne(rs) ==
    IF Len(rs) = 0 THEN Raised
    ELSE IF Len(rs) > 1 THEN Raised
    ELSE Returned(rs[1])

SqlScalarOneOrNone_FirstOfMany(rs) ==
    IF Len(rs) = 0 THEN ReturnedNone ELSE Returned(rs[1])

\* sqlite_db.ScalarResult.one_or_none
SqlScalarOneOrNone(rs) ==
    IF Len(rs) = 0 THEN ReturnedNone
    ELSE IF Len(rs) > 1 THEN Raised
    ELSE Returned(rs[1])

\* --------------------------------------------------- the adapters' caller

NoEntity == [kind |-> "none", id |-> 0, key |-> 0, flag |-> "unset", ref |-> 0]

NoRecent ==
    [ent |-> NoEntity, ops |-> "", empty |-> FALSE, memHad |-> FALSE, sqlHad |-> FALSE]

\* Every object of class `kind` held in some dict of the InMemoryDB.
MemStored(db, kind) ==
    {o \in UNION {{db.maps[st][i] : i \in 1..Len(db.maps[st])} : st \in MemStores} :
       o.kind = kind}

\* Every row of the table that objects of class `kind` are written to.
SqlStored(s, kind) == s.tables[InsertOrUpdateTable(Attrs(kind))]

\* ------------------------------------ two callers on one SQLiteDB
\* get_session yields the same SQLiteDB object to every caller.  Objects
\* are numbered 1..MaxStaged in the order they are staged; they are of a
\* class without unique column (OTP), so that no INSERT is rejected.
\*   queue    _pending_objects, as object numbers
\*   oid      obj.id per object, 0 for None
\*   written  INSERT statements executed per object
\*   staged   objects created so far
\*   open     per caller, the objects it staged in its get_session block
\*            and has not followed with a commit or flush
\*   failed   objects staged in a block whose body raised before commit
\*   task     per caller, where its commit / flush is suspended: "idle",
\*            "insert" (in `await self._db.execute(...)` of
\*            _insert_or_update_object for object obj, reached at list
\*            index i, hasId as computed on entry), "commit" (in
\*            `await self._db.commit()`)
MaxStaged == 2

Callers == {1, 2}

IdleTask == [pc |-> "idle", i |-> 0, obj |-> 0, hasId |-> FALSE]

DrainStart ==
    [queue |-> <<>>,
     oid |-> [o \in 1..MaxStaged |-> 0],
     written |-> [o \in 1..MaxStaged |-> 0],
     staged |-> 0,
     open |-> [c \in Callers |-> {}],
     failed |-> {},
     task |-> [c \in Callers |-> IdleTask]]

\* The for loop of _process_pending_objects asking its list iterator for
\* the element after index i: the iterator compares its index with the
\* present length of the list.  Either _insert_or_update_object is entered
\* for that element (has_id is computed before the first await), or the
\* loop is over, the list is cleared and commit() is awaited.
DrainStep(d, c, i) ==
    IF i + 1 <= Len(d.queue)
    THEN [d EXCEPT !.task[c] = [pc |-> "insert", i |-> i + 1, obj |-> d.queue[i + 1],
                                hasId |-> d.oid[d.queue[i + 1]] # 0]]
    ELSE [d EXCEPT !.queue = <<>>,
                   !.task[c] = [pc |-> "commit", i |-> 0, obj |-> 0, hasId |-> FALSE]]

\* SQLiteDB.commit / flush up to the first await.  With an empty list
\* _process_pending_objects returns at once.
DrainBegin(d, c) ==
    IF d.queue = <<>>
    THEN [d EXCEPT !.task[c] = [pc |-> "commit", i |-> 0, obj |-> 0, hasId |-> FALSE]]
    ELSE DrainStep(d, c, 0)

\* Rows of the table: the INSERT statements executed on objects 1..n.
RECURSIVE RowsWritten(_, _)
RowsWritten(d, n) == IF n = 0 THEN 0 ELSE d.written[n] + RowsWritten(d, n - 1)

\* The awaited statement of _insert_or_update_object returned: an INSERT wrote
\* a row and obj.id = cursor.lastrowid; an UPDATE wrote none.
DrainInserted(d, c) ==
    LET t == d.task[c]
        rows == RowsWritten(d, MaxStaged)
    IN IF t.hasId THEN d
       ELSE [d EXCEPT !.written[t.obj] = @ + 1, !.oid[t.obj] = rows + 1]

\* The SQLite branch of get_session when the body of the block raises: the
\* generator has no try around its yield, nothing is called on the adapter.
SessionBodyRaised(d, c) ==
    [d EXCEPT !.failed = @ \cup d.open[c], !.open[c] = {}]

\* ------------------------------------ nested fields on SQLiteDB
\* A Python value is [t, v]: t = "none" for None, t = "json" for a dict,
\* list, number or boolean whose JSON text is v, t = "str" for the string v.
\* A cell of a TEXT column is NULL or a text [quoted, body]: the body, put
\* between double quotes when quoted.
PyNone == [t |-> "none", v |-> ""]

Structs ==
    {PyNone} \cup [t : {"json"}, v : {"{}", "{\"a\": 1}", "{\"a\": []}", "[]", "[1]"}]

Strings == [t : {"str"}, v : {"api", "user", "123", "true", ""}]

Null == [null |-> TRUE, quoted |-> FALSE, body |-> ""]

Text(q, b) == [null |-> FALSE, quoted |-> q, body |-> b]

\* bool(value) of Python.
PyTruthy(val) == val.t # "none" /\ val.v \notin {"{}", "[]", ""}

\* json.dumps
JsonDumps(val) ==
    CASE val.t = "none" -> Text(FALSE, "null")
      [] val.t = "json" -> Text(FALSE, val.v)
      [] val.t = "str" -> Text(TRUE, val.v)

\* Bodies that are JSON documents when not quoted.
JsonBodies == {"{}", "{\"a\": 1}", "{\"a\": []}", "[]", "[1]", "123", "true", "null"}

\* json.loads of a text: [ok, val]; ok = FALSE is JSONDecodeError.
JsonLoads(text) ==
    IF text.quoted THEN [ok |-> TRUE, val |-> [t |-> "str", v |-> text.body]]
    ELSE IF text.body = "null" THEN [ok |-> TRUE, val |-> PyNone]
    ELSE IF text.body \in JsonBodies THEN [ok |-> TRUE, val |-> [t |-> "json", v |-> text.body]]
    ELSE [ok |-> FALSE, val |-> PyNone]

\* What the parameter of an INSERT / UPDATE stores for a Python value
\* passed as it is (None or a str).
CellOf(val) == IF val.t = "none" THEN Null ELSE Text(FALSE, val.v)

\* _row_to_namespace on the cell of a column named config, resource or
\* permissions: a truthy cell is parsed, and kept as it is when the parse
\* fails.
RowToNamespace(cell) ==
    IF cell.null THEN PyNone
    ELSE IF JsonLoads(cell).ok /\ (cell.quoted \/ cell.body # "") THEN JsonLoads(cell).val
    ELSE [t |-> "str", v |-> cell.body]

\* The parameter _insert_or_update_object binds for the nested field: API
\* config / resource are dumped unless None, Role.permissions is always
\* dumped, Permission.resource is bound as it is.
InsertCell(col, val) ==
    CASE col \in {"API.config", "API.resource"} ->
           IF val.t # "none" THEN JsonDumps(val) ELSE Null
      [] col = "Role.permissions" -> JsonDumps(val)
      [] col = "Permission.resource" -> CellOf(val)

\* The parameter create_api binds for payload["resource"] / ["config"].
CreateApiCell(val) == IF PyTruthy(val) THEN JsonDumps(val) ELSE Null

DocCols == {"API.config", "API.resource", "Role.permissions", "Permission.resource"}

Unread == [t |-> "unread", v |-> ""]

DocStart == [how |-> "none", col |-> "none", wrote |-> PyNone, cell |-> Null,
             via |-> "none", got |-> Unread]

\* ------------------------------------ one SQLiteDB across a shutdown
\* The manager is on Secondary.  A caller keeps the object get_session
\* yielded, which is manager.sqlite_db itself, and goes on using it.
\*   held     manager.sqlite_db is the adapter (None after shutdown)
\*   db       adapter._db: "open", "closing" (shutdown is suspended in
\*            `await self._db.close()`), "none"
\*   phase    "run", "closing" (a shutdown is in progress), "down" (shutdown
\*            or the shutdown step of reinitialize has completed)
\*   handle   the caller holds the adapter, obtained before the shutdown
\*   pending  objects in _pending_objects
\*   rows     rows of the file written by commit / flush
\*   apis     rows of the file written by create_api
\*   atDown   rows and apis when the shutdown completed
\*   reopened the file was opened again after the shutdown completed
MaxObjects == 3         \* objects staged or written through the handle

AdapterStart ==
    [held |-> TRUE, db |-> "open", phase |-> "run", handle |-> FALSE,
     pending |-> 0, rows |-> 0, apis |-> 0, atDown |-> <<0, 0>>, reopened |-> FALSE]

\* `if not self._db: await self.connect()` at the head of execute,
\* create_api, get_api and refresh: aiosqlite.connect opens the file.
EnsureConnected(a) ==
    IF a.db = "none"
    THEN [a EXCEPT !.db = "open", !.reopened = (a.phase = "down")]
    ELSE a

\* SQLiteDB.disconnect after close() returned; shutdown's finally and tail.
ShutdownDisconnected(a) ==
    [a EXCEPT !.db = "none", !.held = FALSE, !.phase = "down",
              !.atDown = <<a.rows, a.apis>>]

\* SQLiteDB.commit / flush: nothing without a connection, else the staged
\* objects are inserted and the transaction committed.
AdapterCommit(a) ==
    IF a.db = "none" THEN a
    ELSE [a EXCEPT !.rows = a.rows + a.pending, !.pending = 0]

\* Both adapters as constructed / connected on a new file.
StoreStart(sc) ==
    /\ mem = MemInit
    /\ sql = SqlInit
    /\ scope = sc
    /\ adds = 0
    /\ recent = NoRecent
    /\ memErr = "none"
    /\ sqlErr = "none"
    /\ acked = SqlInit.tables
    /\ given = [k \in Kinds |-> 0]
    /\ drain = DrainStart
    /\ doc = DocStart
    /\ adapter = AdapterStart

StoresEmpty == mem = MemInit /\ sql = SqlInit

\* session.add(e) on each adapter.
Add(e) ==
    /\ adds < MaxAdds
    /\ mem' = MemAdd(mem, e)
    /\ sql' = [sql EXCEPT !.pending = Append(@, e)]
    /\ adds' = adds + 1
    /\ memErr' = "none"
    /\ sqlErr' = "none"
    /\ recent' = IF recent.ent = e /\ recent.ops \in {"A", "AC"}
                 THEN [recent EXCEPT !.ops = IF @ = "A" THEN "AA" ELSE "ACA"]
                 ELSE [ent |-> e, ops |-> "A", empty |-> StoresEmpty,
                       memHad |-> \E o \in MemStored(mem, e.kind) : o.id = e.id,
                       sqlHad |-> \E r \in SqlStored(sql, e.kind) : r.id = e.id]
    /\ given' = IF MemGivenId(mem, e) = 0 THEN given
                ELSE [given EXCEPT ![e.kind] = MemGivenId(mem, e)]
    /\ UNCHANGED <<scope, acked>>
    /\ UNCHANGED <<drain, doc, adapter>>
    /\ UNCHANGED mgrVars

\* await session.commit() on each adapter.
Commit ==
    /\ LET r == SqlCommit(sql)
       IN /\ sql' = r.s
          /\ sqlErr' = IF r.ok THEN "none" ELSE "IntegrityError"
          /\ acked' = IF r.ok THEN r.s.tables ELSE acked
    /\ memErr' = "none"
    /\ recent' = CASE recent.ops = "A" -> [recent EXCEPT !.ops = "AC"]
                   [] recent.ops = "AA" -> [recent EXCEPT !.ops = "AAC"]
                   [] recent.ops = "ACA" -> [recent EXCEPT !.ops = "ACAC"]
                   [] OTHER -> NoRecent
    /\ mem' = MemCommit(mem)
    /\ UNCHANGED <<scope, adds, given>>
    /\ UNCHANGED <<drain, doc, adapter>>
    /\ UNCHANGED mgrVars

\* await session.rollback() on each adapter.
Rollback ==
    /\ sql' = SqlRollback(sql)
    /\ memErr' = "none"
    /\ sqlErr' = "none"
    /\ recent' = NoRecent
    /\ mem' = MemRollback(mem)
    /\ UNCHANGED <<scope, adds, acked, given>>
    /\ UNCHANGED <<drain, doc, adapter>>
    /\ UNCHANGED mgrVars

\* await session.flush() on each adapter: nothing on InMemoryDB, the staged
\* objects written and committed on SQLiteDB.
Flush ==
    /\ LET r == SqlFlush(sql)
       IN /\ sql' = r.s
          /\ sqlErr' = IF r.ok THEN "none" ELSE "IntegrityError"
          /\ acked' = IF r.ok THEN r.s.tables ELSE acked
    /\ memErr' = "none"
    /\ recent' = NoRecent
    /\ mem' = MemFlush(mem)
    /\ UNCHANGED <<scope, adds, given>>
    /\ UNCHANGED <<drain, doc, adapter>>
    /\ UNCHANGED mgrVars

\* await db.create_api({name, version}) on each adapter.
CreateApi(k) ==
    /\ "API" \in scope
    /\ adds < MaxAdds
    /\ LET m == MemCreateApi(mem, k)
           s == SqlCreateApi(sql, k)
       IN /\ mem' = m.db
          /\ memErr' = m.err
          /\ sql' = s.s
          /\ sqlErr' = s.err
          /\ acked' = [acked EXCEPT !["apis"] =
                                  @ \cup (s.s.tables["apis"] \ sql.tables["apis"])]
    /\ adds' = adds + 1
    /\ recent' = NoRecent
    /\ given' = IF MemCreateApi(mem, k).err = "none"
                THEN [given EXCEPT !["API"] = mem.next["_apis"]] ELSE given
    /\ UNCHANGED scope
    /\ UNCHANGED <<drain, doc, adapter>>
    /\ UNCHANGED mgrVars

\* Ids under which either adapter holds an entity of class `kind`.
HeldIds(kind) ==
    {o.id : o \in MemStored(mem, kind)} \cup {r.id : r \in SqlStored(sql, kind)}

\* await session.delete(obj) on each adapter, obj of class k with id i.
Delete(k, i) ==
    /\ i \in HeldIds(k)
    /\ LET obj == [kind |-> k, id |-> i, key |-> 0, flag |-> "unset", ref |-> 0]
           m == MemDelete(mem, obj)
       IN /\ mem' = m.db
          /\ memErr' = m.err
          /\ sql' = SqlDelete(sql, obj)
          /\ acked' = IF DeleteTable(Attrs(k)) = "none" THEN acked
                      ELSE SqlDeleteRow(acked, DeleteTable(Attrs(k)), i)
    /\ sqlErr' = "none"
    /\ recent' = NoRecent
    /\ UNCHANGED <<scope, adds, given>>
    /\ UNCHANGED <<drain, doc, adapter>>
    /\ UNCHANGED mgrVars

OtherStoreVars == <<mem, sql, scope, adds, recent, memErr, sqlErr, acked, given, doc, adapter>>

\* Caller c, inside its get_session block, calls session.add(obj).
DrainAdd(c) ==
    /\ drain.task[c].pc = "idle"
    /\ drain.staged < MaxStaged
    /\ LET o == drain.staged + 1
       IN drain' = [drain EXCEPT !.queue = Append(@, o),
                                 !.staged = o,
                                 !.open[c] = @ \cup {o}]
    /\ UNCHANGED OtherStoreVars
    /\ UNCHANGED mgrVars

\* Caller c calls await session.commit() or await session.flush().
DrainCommit(c) ==
    /\ drain.task[c].pc = "idle"
    /\ drain.staged > 0
    /\ drain' = DrainBegin([drain EXCEPT !.open[c] = {}], c)
    /\ UNCHANGED OtherStoreVars
    /\ UNCHANGED mgrVars

\* The event loop resumes c after its INSERT / UPDATE.
DrainInsertDone(c) ==
    /\ drain.task[c].pc = "insert"
    /\ drain' = DrainStep(DrainInserted(drain, c), c, drain.task[c].i)
    /\ UNCHANGED OtherStoreVars
    /\ UNCHANGED mgrVars

\* The event loop resumes c after self._db.commit(); commit / flush returns.
DrainCommitDone(c) ==
    /\ drain.task[c].pc = "commit"
    /\ drain' = [drain EXCEPT !.task[c] = IdleTask]
    /\ UNCHANGED OtherStoreVars
    /\ UNCHANGED mgrVars

\* The body of c's get_session block raises before it committed.
BodyRaises(c) ==
    /\ drain.task[c].pc = "idle"
    /\ drain.open[c] # {}
    /\ drain' = SessionBodyRaised(drain, c)
    /\ UNCHANGED OtherStoreVars
    /\ UNCHANGED mgrVars

DocFrame == <<mem, sql, scope, adds, recent, memErr, sqlErr, acked, given, drain, adapter>>

\* session.add(obj); await session.commit() for an object whose nested
\* field col has the value val.
DocAddCommit(col, val) ==
    /\ doc' = [how |-> "add", col |-> col, wrote |-> val, cell |-> InsertCell(col, val),
               via |-> "none", got |-> Unread]
    /\ UNCHANGED DocFrame
    /\ UNCHANGED mgrVars

\* create_api(payload) with payload[field] = val; it returns the row it
\* reads back.
DocCreateApi(col, val) ==
    /\ doc' = [how |-> "create_api", col |-> col, wrote |-> val, cell |-> CreateApiCell(val),
               via |-> "create_api", got |-> RowToNamespace(CreateApiCell(val))]
    /\ UNCHANGED DocFrame
    /\ UNCHANGED mgrVars

\* The stored row is read by execute (any class), get_api (API) or
\* refresh; refresh has branches for User, OTP and API only and leaves an
\* object of another class as it is.
DocRead(via) ==
    /\ doc.how # "none"
    /\ via = "get_api" => doc.col \in {"API.config", "API.resource"}
    /\ doc' = [doc EXCEPT !.via = via,
                          !.got = IF via = "refresh" /\ doc.col \notin {"API.config", "API.resource"}
                                  THEN doc.wrote
                                  ELSE RowToNamespace(doc.cell)]
    /\ UNCHANGED DocFrame
    /\ UNCHANGED mgrVars

AdapterFrame == <<mem, sql, scope, adds, recent, memErr, sqlErr, acked, given, drain, doc>>

\* async with db_manager.get_session() as session, while on Secondary.
HandleTaken ==
    /\ adapter.held
    /\ ~adapter.handle
    /\ adapter' = [adapter EXCEPT !.handle = TRUE]
    /\ UNCHANGED AdapterFrame
    /\ UNCHANGED mgrVars

\* session.add(obj) through the handle.
HandleAdd ==
    /\ adapter.handle
    /\ adapter.rows + adapter.apis + adapter.pending < MaxObjects
    /\ adapter' = [adapter EXCEPT !.pending = @ + 1]
    /\ UNCHANGED AdapterFrame
    /\ UNCHANGED mgrVars

\* session.execute(...) or session.refresh(obj) through the handle; on a
\* connection that is being closed the statement fails.
HandleExecute ==
    /\ adapter.handle
    /\ adapter' = EnsureConnected(adapter)
    /\ UNCHANGED AdapterFrame
    /\ UNCHANGED mgrVars

\* session.commit() or session.flush() through the handle.
HandleCommit ==
    /\ adapter.handle
    /\ adapter.db # "closing"
    /\ adapter' = AdapterCommit(adapter)
    /\ UNCHANGED AdapterFrame
    /\ UNCHANGED mgrVars

\* session.create_api(payload) through the handle: INSERT and commit.
HandleCreateApi ==
    /\ adapter.handle
    /\ adapter.db # "closing"
    /\ adapter.rows + adapter.apis + adapter.pending < MaxObjects
    /\ adapter' = [EnsureConnected(adapter) EXCEPT !.apis = @ + 1]
    /\ UNCHANGED AdapterFrame
    /\ UNCHANGED mgrVars

\* shutdown(), or reinitialize() entering its shutdown: with sqlite_db set
\* it awaits sqlite_db.disconnect(), which awaits close() when _db is set.
AdapterShutdownCall ==
    /\ adapter.phase = "run"
    /\ adapter' = IF adapter.db = "open"
                  THEN [adapter EXCEPT !.db = "closing", !.phase = "closing"]
                  ELSE ShutdownDisconnected(adapter)
    /\ UNCHANGED AdapterFrame
    /\ UNCHANGED mgrVars

\* close() returned; the shutdown runs to its end.
AdapterShutdownDone ==
    /\ adapter.phase = "closing"
    /\ adapter' = ShutdownDisconnected(adapter)
    /\ UNCHANGED AdapterFrame
    /\ UNCHANGED mgrVars

\* -------------------------------------------------------- specifications

Init == ManagerStart /\ StoreStart({})

Next ==
    \/ \E p \in PriOutcomes, s \in SecOutcomes : InitializeCall(p, s)
    \/ PriProbeDone
    \/ PriTestDone
    \/ PriTablesDone
    \/ PriDisposeDone
    \/ SqConnectDone
    \/ SqTablesDone
    \/ SqSubTimeout
    \/ SqCleanupDone
    \/ TotalTimeout
    \/ ShutdownCall
    \/ \E f \in BOOLEAN, p \in PriOutcomes, s \in SecOutcomes : ReinitializeCall(f, p, s)
    \/ SdDisposeDone
    \/ SdDisconnectDone
    \/ \E s \in SecOutcomes : GetSession(s)
    \/ \E i \in Items : Write(i)
    \/ Construct
    \/ GetDbManager

Spec == Init /\ [][Next]_vars

\* The event loop resumes a suspended initialize: an awaited I/O completes
\* or a wait_for timer fires.
InitStep ==
    \/ PriProbeDone \/ PriTestDone \/ PriTablesDone \/ PriDisposeDone
    \/ SqConnectDone \/ SqTablesDone \/ SqSubTimeout \/ SqCleanupDone
    \/ TotalTimeout

FairSpec == Spec /\ WF_vars(InitStep)

\* session.refresh(obj) on both adapters, obj being an entity of kind k
\* with id i.
Refresh(k, i) ==
    /\ mem' = MemRefresh(mem, [NoEntity EXCEPT !.kind = k, !.id = i])
    /\ sql' = SqlRefresh(sql, [NoEntity EXCEPT !.kind = k, !.id = i])
    /\ memErr' = "none"
    /\ sqlErr' = "none"
    /\ recent' = NoRecent
    /\ UNCHANGED <<scope, adds, acked, given>>
    /\ UNCHANGED <<drain, doc, adapter>>
    /\ UNCHANGED mgrVars

StoreInit == ManagerStart /\ \E sc \in Scopes : StoreStart(sc)

StoreNext ==
    \/ \E k \in scope : \E e \in EntitiesOf(k) : Add(e)
    \/ Commit
    \/ Flush
    \/ Rollback
    \/ \E k \in Keys : CreateApi(k)
    \/ \E k \in scope : \E i \in HeldIds(k) : Delete(k, i)
    \/ \E k \in scope : \E i \in HeldIds(k) : Refresh(k, i)

StoreSpec == StoreInit /\ [][StoreNext]_vars

DrainNext ==
    \E c \in Callers :
        \/ DrainAdd(c)
        \/ DrainCommit(c)
        \/ DrainInsertDone(c)
        \/ DrainCommitDone(c)
        \/ BodyRaises(c)

DrainSpec == Init /\ [][DrainNext]_vars

DocNext ==
    \/ \E col \in DocCols \ {"Permission.resource"}, val \in Structs : DocAddCommit(col, val)
    \/ \E val \in Strings : DocAddCommit("Permission.resource", val)
    \/ \E col \in {"API.config", "API.resource"}, val \in Structs : DocCreateApi(col, val)
    \/ \E via \in {"execute", "get_api", "refresh"} : DocRead(via)

DocSpec == Init /\ [][DocNext]_vars

AdapterNext ==
    \/ HandleTaken
    \/ HandleAdd
    \/ HandleExecute
    \/ HandleCommit
    \/ HandleCreateApi
    \/ AdapterShutdownCall
    \/ AdapterShutdownDone

AdapterSpec == Init /\ [][AdapterNext]_vars


\* ------------------------------------------------- claims on the manager

InitializeReturned == pc = "idle" /\ lastOp = "initialize"

\* C1: whatever the Primary and Secondary outcomes, initialize lets no
\* exception escape and leaves a tier whose get_session handle is not None.
C1_InitializeLandsUsable ==
    /\ ~raised
    /\ InitializeReturned => HandleOf(mgr).inst # 0
    /\ (InitializeReturned /\ session.kind # "unset") => session.kind # "none"

C1_Witness ==
    /\ InitializeReturned
    /\ timedOut
    /\ pri = "hang"
    /\ session.kind = "memory"

C3_InitializeTerminates ==
    /\ (pc \in InitPcs) ~> (pc = "idle")
    /\ []((pc = "idle" /\ timedOut /\ lastOp \in {"initialize", "reinitialize"}) =>
            /\ HealthTier(mgr) = "in-memory"
            /\ mgr.inmemory_db # 0
            /\ HandleOf(mgr) = [kind |-> "memory", inst |-> mgr.inmemory_db])

C3_Witness ==
    /\ InitializeReturned
    /\ timedOut
    /\ pri = "hang"
    /\ HealthTier(mgr) = "in-memory"
    /\ mgr.engine = 0

\* C4: between manager calls at most one tier flag is set.
C4_OneTierActive ==
    pc = "idle" => ~(mgr.is_using_primary /\ mgr.is_using_sqlite)

\* C5: initialize called on an initialized manager changes neither the
\* active tier, nor the adapter get_session hands out, nor its data.
C5_InitializeIdempotent ==
    (InitializeReturned /\ snap.valid) =>
        /\ HealthTier(mgr) = snap.tier
        /\ HandleOf(mgr) = [kind |-> snap.kind, inst |-> snap.inst]
        /\ DataOf(snap.kind) = snap.data

\* ------------------------------------------------ claims on the adapters

Range(q) == {q[i] : i \in 1..Len(q)}

\* C6: on each tier and for each of the nine entity kinds, starting from an
\* empty store, add(entity without id) then commit() then a select of that
\* kind without predicates returns exactly one entity, whose id is >= 1.
C6_AddCommitSelect ==
    (recent.ops = "AC" /\ recent.empty /\ recent.ent.id = 0) =>
        LET k == recent.ent.kind
            m == MemExecute(mem, k, <<>>)
            s == SqlExecute(sql, k, <<>>)
        IN /\ Len(m) = 1 /\ m[1].id >= 1
           /\ Len(s) = 1 /\ s[1].id >= 1

\* Kinds with a logical unique key: Account email, token value, API
\* name+version, role / permission / secret name.
UniqueKinds == {"User", "RefreshToken", "API", "Role", "Permission", "Secret"}

\* C7: on every tier an insert whose unique key equals that of a stored
\* entity is rejected, so that after any sequence of inserts and updates no
\* tier holds two entities of one type with the same unique key.
C7_UniqueKeys ==
    \A k \in UniqueKinds :
        /\ \A a, b \in MemStored(mem, k) : a.key = b.key => a = b
        /\ \A a, b \in SqlStored(sql, k) : a.key = b.key => a = b

\* Equality predicates on the fields an entity kind has.
EqCriteria(kind) ==
    {c \in [op : {"eq"}, field : {"key"}, value : Keys] \cup
           [op : {"eq"}, field : {"flag"}, value : {"true", "false"}] \cup
           [op : {"eq"}, field : {"id"}, value : 1..MaxId] :
       HasField(kind, c.field)}

\* Predicate lists of length 0, 1 and 2.
EqQueries(kind) ==
    {<<>>} \cup {<<c>> : c \in EqCriteria(kind)}
           \cup {<<c, d>> : c \in EqCriteria(kind), d \in EqCriteria(kind)}

Satisfies(o, q) == \A i \in 1..Len(q) : FieldValue(o, q[i].field) = q[i].value

\* C8: on Tertiary and on Secondary a select with equality predicates returns
\* exactly the stored entities of the queried type that satisfy every
\* predicate, and all entities of that type when the list is empty.
C8_EqualitySelect ==
    \A k \in scope : \A q \in EqQueries(k) :
        /\ Range(MemExecute(mem, k, q)) = {o \in MemStored(mem, k) : Satisfies(o, q)}
        /\ Range(SqlExecute(sql, k, q)) = {r \in SqlStored(sql, k) : Satisfies(r, q)}

\* C9: add of an entity stored under its id, called twice with identical
\* field values (each followed by commit, or both before one commit), leaves
\* on each tier exactly one record with that id, holding those values.
C9_UpdateByIdOnce ==
    (recent.ops \in {"AAC", "ACAC"} /\ recent.ent.id # 0 /\ sqlErr = "none") =>
        LET e == recent.ent
        IN /\ recent.memHad => {o \in MemStored(mem, e.kind) : o.id = e.id} = {e}
           /\ recent.sqlHad =>
                {r \in SqlStored(sql, e.kind) : r.id = e.id}
                  = {SqlRow(InsertOrUpdateTable(Attrs(e.kind)), e)}

\* The ways to ask for the tokens whose revoked is not true:
\* where(not_(revoked)) and where(revoked != True).
NotRevoked == <<[op |-> "not", field |-> "flag", value |-> "true"]>>

RevokedNeTrue == <<[op |-> "ne", field |-> "flag", value |-> "true"]>>

NegationQueries == {NotRevoked, RevokedNeTrue}

\* What a credential token is to its reader: id, token, revoked or not.
TokenView(o) == [id |-> o.id, key |-> o.key, revoked |-> Truthy(o.flag)]

TokenViews(os) == {TokenView(o) : o \in os}

\* Both tiers hold the same credential tokens.
SameTokens ==
    TokenViews(MemStored(mem, "RefreshToken")) = TokenViews(SqlStored(sql, "RefreshToken"))

\* C10: a negation predicate on revoked returns, on each tier, exactly the
\* stored tokens that are not revoked, those whose revoked was never set
\* included; the two tiers return the same tokens whenever they hold the same.
C10_NegationParity ==
    \A q \in NegationQueries :
        LET m == Range(MemExecute(mem, "RefreshToken", q))
            s == Range(SqlExecute(sql, "RefreshToken", q))
        IN /\ m = {o \in MemStored(mem, "RefreshToken") : ~Truthy(o.flag)}
           /\ s = {r \in SqlStored(sql, "RefreshToken") : ~Truthy(r.flag)}
           /\ SameTokens => TokenViews(m) = TokenViews(s)

\* The ids of a result list are strictly increasing.
AscendingIds(q) == \A i, j \in 1..Len(q) : i < j => q[i].id < q[j].id

\* C11: after any sequence of add, delete and commit, a select returns the
\* matching entities in ascending id order on Tertiary and on Secondary,
\* hence in the same order on both.
C11_AscendingOrder ==
    \A k \in scope : \A q \in EqQueries(k) :
        /\ AscendingIds(MemExecute(mem, k, q))
        /\ AscendingIds(SqlExecute(sql, k, q))

\* The accessors of both adapters on one result list: they agree, and
\* first / all / one / one_or_none do what their names say.
AccessorsAgree(rs) ==
    /\ MemScalarFirst(rs) = SqlScalarFirst(rs)
    /\ MemScalarAll(rs) = SqlScalarAll(rs)
    /\ MemScalarOne(rs) = SqlScalarOne(rs)
    /\ MemScalarOneOrNone(rs) = SqlScalarOneOrNone(rs)
    /\ SqlScalarFirst(rs) = IF Len(rs) = 0 THEN ReturnedNone ELSE Returned(rs[1])
    /\ SqlScalarAll(rs) = rs
    /\ SqlScalarOne(rs) = IF Len(rs) = 1 THEN Returned(rs[1]) ELSE Raised
    /\ SqlScalarOneOrNone(rs) =
         IF Len(rs) = 0 THEN ReturnedNone
         ELSE IF Len(rs) = 1 THEN Returned(rs[1]) ELSE Raised

\* C12: on every result list either adapter produces, first, all, one and
\* one_or_none behave the same on Tertiary and Secondary: first gives the
\* first match or None, all gives every match, one raises unless there is
\* exactly one match, one_or_none gives None for none and raises for many.
C12_AccessorsAgree ==
    \A k \in scope : \A q \in EqQueries(k) :
        /\ AccessorsAgree(MemExecute(mem, k, q))
        /\ AccessorsAgree(SqlExecute(sql, k, q))

C12_Witness ==
    \E k \in scope :
        /\ Len(SqlExecute(sql, k, <<>>)) > 1
        /\ Len(MemExecute(mem, k, <<>>)) > 1
        /\ SqlScalarOneOrNone(SqlExecute(sql, k, <<>>)) = Raised
        /\ \E q \in EqQueries(k) :
             /\ Len(SqlExecute(sql, k, q)) = 1
             /\ SqlScalarOne(SqlExecute(sql, k, q)).out = "value"
        /\ \E q \in EqQueries(k) : SqlScalarFirst(SqlExecute(sql, k, q)) = ReturnedNone

\* A step of get_session or of a session operation through its handle.
SessionStep == (\E s \in SecOutcomes : GetSession(s)) \/ (\E i \in Items : Write(i))

\* C13: no session operation and no get_session or health_check call changes
\* which tier is active: is_using_primary and is_using_sqlite change only
\* inside initialize, reinitialize and shutdown.
C13_SessionKeepsTier ==
    [][SessionStep =>
         /\ mgr'.is_using_primary = mgr.is_using_primary
         /\ mgr'.is_using_sqlite = mgr.is_using_sqlite]_vars

\* The last store call was a commit that Secondary rejected, and an object
\* still in the adapter's list duplicates the unique column of a stored row.
RejectedDuplicate ==
    /\ sqlErr = "IntegrityError"
    /\ \E i \in 1..Len(sql.pending) :
         LET o == sql.pending[i]
             t == InsertOrUpdateTable(Attrs(o.kind))
         IN /\ t # "none"
            /\ o.id = 0
            /\ SqlUnique(t)
            /\ \E r \in sql.tables[t] : r.key = o.key

\* C14: after a commit on Secondary was rejected for a uniqueness violation,
\* the rejected write is not retried: the next commit, for which nothing but
\* valid objects (here: nothing at all) was staged, succeeds.
C14_RejectedNotRetried ==
    [][(Commit /\ RejectedDuplicate) => sqlErr' = "none"]_vars

\* What execute hands back to its caller: every path of either execute ends
\* in `return QueryResult(...)`, the except clauses included.
MemExecuteOutcome(db, kind, preds) == Returned(MemExecute(db, kind, preds))

SqlExecuteOutcome(s, kind, preds) == Returned(SqlExecute(s, kind, preds))

\* Predicates outside equality and negation: id >= 1, and an OR of two
\* equalities on id.
UnsupportedQueries ==
    { <<[op |-> "ge", field |-> "id", value |-> 1]>>,
      <<[op |-> "or", field |-> "id", value |-> 1]>> }

\* C15: execute on Tertiary or Secondary, given a predicate that is neither
\* an equality nor a negation on a field, reports an error to the caller
\* instead of returning rows (checked whenever the queried store holds
\* entities of the kind).
C15_UnsupportedPredicateRejected ==
    \A k \in scope : \A q \in UnsupportedQueries :
        /\ MemStored(mem, k) # {} => MemExecuteOutcome(mem, k, q) = Raised
        /\ SqlStored(sql, k) # {} => SqlExecuteOutcome(sql, k, q) = Raised

\* Entity e, staged with add, is among the entities a select of its kind
\* returns: same id when the caller chose one, same key and reference.
ReadBack(e, rs) ==
    \E i \in 1..Len(rs) :
        /\ e.id # 0 => rs[i].id = e.id
        /\ rs[i].key = e.key
        /\ rs[i].ref = e.ref

\* C16: once commit or flush has returned normally, every entity the caller
\* staged with add before the call is returned by the next select of its
\* kind on the same handle, on Tertiary and on Secondary.
C16_ReadYourWrites ==
    [][((Commit \/ Flush) /\ sqlErr' = "none") =>
         \A i \in 1..Len(sql.pending) :
             LET e == sql.pending[i]
             IN /\ ReadBack(e, MemExecute(mem', e.kind, <<>>))
                /\ ReadBack(e, SqlExecute(sql', e.kind, <<>>))]_vars

\* C17: on Secondary, rollback discards every staged operation: right after
\* rollback() nothing is staged any more, so that no later commit or flush
\* inserts a rolled-back object, and the tables hold exactly the rows
\* written by the calls that returned normally, so that no execute returns
\* one.
C17_RollbackDiscardsStaged ==
    [][Rollback => (sql'.pending = <<>> /\ sql'.tables = acked)]_vars

\* ------------------------------------ claims on shutdown and restart

\* The manager reports Secondary as its tier after an initialize or
\* reinitialize that followed a shutdown, and nothing was written since.
LandedOnSecondary == cycle.phase = "up" /\ HealthTier(mgr) = "sqlite"

\* C18: an entity committed on Secondary is still retrievable after
\* shutdown() and a new initialize() that lands on Secondary (same file
\* path): get_session yields a connected SQLiteDB whose file holds every
\* entity the file held when the shutdown was called.
C18_SecondarySurvivesRestart ==
    LandedOnSecondary =>
        LET h == HandleOf(mgr)
        IN /\ h.kind = "sqlite"
           /\ h.inst # 0
           /\ mgr.sqlite_conn
           /\ cycle.kept.file \subseteq DataOf(h.kind)

C18_Witness ==
    /\ LandedOnSecondary
    /\ lastOp = "initialize"
    /\ cycle.kept.file # {}
    /\ cycle.kept.file \subseteq DataOf(HandleOf(mgr).kind)

\* The manager hands out Tertiary after an initialize or reinitialize that
\* followed a shutdown, and nothing was written since.
LandedOnTertiary == cycle.phase = "up" /\ HandleOf(mgr).kind = "memory"

\* C19: whenever shutdown is followed by an initialize or reinitialize that
\* lands on Tertiary, the Tertiary store starts empty: nothing stored before
\* the shutdown, on any tier, is retrievable through it.
C19_TertiaryStartsEmpty ==
    LandedOnTertiary =>
        /\ DataOf("memory") = {}
        /\ DataOf("memory") \cap
             (cycle.kept.mem \cup cycle.kept.file \cup cycle.kept.remote) = {}

C19_Witness ==
    /\ LandedOnTertiary
    /\ mgr.inmemory_db # 0
    /\ cycle.kept.mem # {}
    /\ DataOf("memory") = {}

\* A step in which a shutdown() call (not the one inside reinitialize)
\* returns to its caller.
ShutdownReturns ==
    /\ ShutdownCall \/ SdDisposeDone \/ SdDisconnectDone
    /\ pc' = "idle"
    /\ lastOp' = "shutdown"
    /\ op' = "none"

\* No Primary engine or session factory, no Secondary adapter, no Tertiary
\* store, neither flag set.
Cleared(m) ==
    /\ m.engine = 0
    /\ m.session_factory = 0
    /\ m.sqlite_db = 0
    /\ m.inmemory_db = 0
    /\ ~m.is_using_primary
    /\ ~m.is_using_sqlite

\* C20: when shutdown() returns, from any manager state and whatever
\* engine.dispose() and disconnect() did, the manager holds no engine, no
\* session factory, no SQLiteDB and no InMemoryDB, and neither tier flag is
\* set.
C20_ShutdownClears ==
    [][ShutdownReturns => Cleared(mgr')]_vars

C20_Witness ==
    /\ cycle.phase = "down"
    /\ lastOp = "shutdown"
    /\ pc = "idle"
    /\ Cleared(mgr)
    /\ cycle.kept.mem # {}

\* ------------------------------------------------ claims on reinitialize

\* A step in which the shutdown inside reinitialize ends and the code after
\* `await self.shutdown()` starts.
ReinitShutdownEnds ==
    /\ pc' \notin ShutdownPcs
    /\ op' = "reinitialize" \/ lastOp' = "reinitialize"
    /\ \/ op = "reinitialize" /\ (SdDisposeDone \/ SdDisconnectDone)
       \/ /\ pc = "idle"
          /\ \E f \in BOOLEAN, p \in PriOutcomes, s \in SecOutcomes :
                 ReinitializeCall(f, p, s)

\* reinitialize returned and nothing was called since but get_session.
ReinitializeReturned == pc = "idle" /\ lastOp = "reinitialize" /\ cycle.phase = "up"

\* What holds of the manager while reinitialize runs and once it returned.
ReinitializeOutcome ==
    /\ (op = "reinitialize" /\ pc \in ShutdownPcs) => mgr.tried = <<>>
    /\ (ReinitializeReturned /\ force) =>
            /\ HandleOf(mgr) = [kind |-> "memory", inst |-> mgr.inmemory_db]
            /\ mgr.inmemory_db # 0
            /\ DataOf("memory") = {}
            /\ mgr.tried = <<"tertiary">>
    /\ (ReinitializeReturned /\ ~force /\ ~timedOut) =>
            /\ pri = "ok" =>
                 (HealthTier(mgr) = "postgresql" /\ mgr.tried = <<"primary">>)
            /\ (pri # "ok" /\ sec = "ok") =>
                 (HealthTier(mgr) = "sqlite" /\ mgr.tried = <<"primary", "secondary">>)
            /\ (pri # "ok" /\ sec # "ok") =>
                 (HealthTier(mgr) = "in-memory"
                  /\ mgr.tried = <<"primary", "secondary", "tertiary">>)

\* C21: reinitialize completes the shutdown of the current tier before any
\* new tier is started (no attempt is recorded while the shutdown runs, and
\* when it ends none of the old engine, session factory, SQLiteDB, InMemoryDB
\* or flags is left); with force_fallback it ends on an empty Tertiary
\* without attempting Primary or Secondary; without it the sequence of
\* initialize runs: Primary, then Secondary, then Tertiary.
C21_ReinitializeOrder ==
    [][/\ ReinitShutdownEnds =>
            /\ mgr'.engine = 0
            /\ mgr'.session_factory = 0
            /\ mgr'.sqlite_db \in {0} \cup {n \in 1..(MaxAlloc + 3) : n > mgr.alloc}
            /\ mgr'.inmemory_db \in {0} \cup {n \in 1..(MaxAlloc + 3) : n > mgr.alloc}
            /\ ~mgr'.is_using_primary
            /\ ~mgr'.is_using_sqlite
       /\ ReinitializeOutcome']_vars

C21_Witness ==
    /\ ReinitializeReturned
    /\ force
    /\ cycle.kept.file # {}
    /\ HandleOf(mgr).kind = "memory"
    /\ mgr.tried = <<"tertiary">>

\* ------------------------------------------------ claims on health_check

\* C22: in every reachable manager state in which Primary is not the active
\* tier (the flag is clear, or it is stale and get_session hands out another
\* adapter), health_check reports healthy or degraded, never unhealthy; it
\* has no path that raises.
C22_HealthNeverUnhealthy ==
    (~mgr.is_using_primary \/ HandleOf(mgr).kind # "primary") =>
        \A alive \in BOOLEAN : HealthStatus(mgr, alive) \in {"healthy", "degraded"}

C22_Witness ==
    /\ ~mgr.is_using_primary
    /\ mgr.is_using_sqlite
    /\ HealthStatus(mgr, TRUE) = "degraded"

\* -------------------------------------------------- claims on the singleton

\* C23: every DatabaseManager() and every get_db_manager() returns the one
\* instance the process built first, and a construction after the manager was
\* initialized resets none of its fields (tier flags, engine, session
\* factory, SQLiteDB and InMemoryDB references).
C23_Singleton ==
    [][/\ single'.returned = 1
       /\ single'.instance = 1
       /\ single'.global \in {0, 1}
       /\ (Construct \/ GetDbManager) => mgr' = mgr]_vars

C23_Witness ==
    /\ single.global = 1
    /\ single.returned = 1
    /\ mgr.is_using_sqlite
    /\ mgr.sqlite_db # 0
    /\ lastOp = "initialize"

\* --------------------------------------- further claims on the adapters

\* A step of add or of delete on the adapters.
AddOrDeleteStep ==
    \/ \E k \in scope : \E e \in EntitiesOf(k) : Add(e)
    \/ \E k \in scope : \E i \in HeldIds(k) : Delete(k, i)

\* C24: on Secondary add and delete are staged: neither changes what a
\* select of any kind returns (that takes a commit or a flush), so that a
\* delete followed by rollback leaves the entity stored.
C24_AddDeleteStaged ==
    [][AddOrDeleteStep =>
         \A k \in scope : SqlExecute(sql', k, <<>>) = SqlExecute(sql, k, <<>>)]_vars

\* A step in which Tertiary gives an id: add of an entity without id, or
\* create_api.
GivesId(k, n) ==
    \/ \E e \in EntitiesOf(k) : Add(e) /\ MemGivenId(mem, e) = n
    \/ /\ k = "API"
       /\ \E key \in Keys : CreateApi(key) /\ MemCreateApi(mem, key).err = "none"
       /\ n = mem.next["_apis"]

\* C25: on Tertiary, per entity type and store lifetime, the ids given to
\* entities added without an id start at 1 and strictly increase, and an id
\* is never given while an entity stored in the same map holds it, after any
\* sequence of add, create_api and delete.
C25_IdsIncrease ==
    [][\A k \in scope \cup {"API"} : \A n \in 1..(MaxAdds + 1) :
         GivesId(k, n) =>
            /\ n > given[k]
            /\ given[k] = 0 => n = 1
            /\ ~(\E o \in MemStored(mem, k) : o.id = n)]_vars

\* The dict of InMemoryDB that belongs to a class, "none" for the classes
\* the store has no dict for (__init__).
OwnStore(kind) ==
    CASE kind = "User" -> "_users"
      [] kind = "OTP" -> "_otps"
      [] kind = "RefreshToken" -> "_refresh_tokens"
      [] kind = "Role" -> "_roles"
      [] kind = "Permission" -> "_permissions"
      [] kind = "UserRole" -> "_user_roles"
      [] kind = "API" -> "_apis"
      [] OTHER -> "none"

\* C26: on Tertiary every entity is stored only in the map of its own type,
\* so that a select of type T never returns an entity of another type.
C26_OwnMapPerType ==
    /\ \A st \in MemStores : \A i \in 1..Len(mem.maps[st]) :
          OwnStore(mem.maps[st][i].kind) = st
    /\ \A k \in scope : \A o \in Range(MemExecute(mem, k, <<>>)) : o.kind = k

\* C27: on Tertiary delete(entity) removes exactly the stored entity of the
\* entity's own type with its id, does nothing and raises nothing when there
\* is none, and leaves the maps of every other type as they were, also when
\* another type holds an entity with the same id.
C27_DeleteOwnTypeOnly ==
    [][\A k \in scope : \A i \in HeldIds(k) :
         Delete(k, i) =>
            /\ memErr' = "none"
            /\ \A st \in MemStores :
                 mem'.maps[st] = IF st = OwnStore(k) THEN DictDel(mem.maps[st], i)
                                 ELSE mem.maps[st]]_vars

\* ----------------------------- claims on two callers sharing Secondary

\* Object o is neither in the list nor the object a suspended
\* _insert_or_update_object works on.
OutOfQueue(o) ==
    /\ \A i \in 1..Len(drain.queue) : drain.queue[i] # o
    /\ \A c \in Callers : drain.task[c].obj # o

\* C28: when two callers sharing the SQLiteDB interleave add and commit /
\* flush at its await points, every staged object is written exactly once:
\* none is inserted twice by overlapping drains, none leaves the list
\* without having been inserted.
C28_WrittenExactlyOnce ==
    \A o \in 1..drain.staged :
        /\ drain.written[o] <= 1
        /\ OutOfQueue(o) => drain.written[o] = 1

\* C29: when the body of a get_session block raises before commit, what
\* the block staged is discarded: an object staged by the failed caller is
\* never written by a later commit, whoever issues it.
C29_FailedBlockDiscarded ==
    \A o \in drain.failed : drain.written[o] = 0

\* ------------------------------------------- claim on the total timeout

\* C30: when initialize ends through its total timeout, the adapter that
\* was being started is abandoned: on return the manager holds no Primary
\* engine, no session factory and no Secondary adapter, only the Tertiary
\* store.
C30_TimeoutAbandonsAdapter ==
    [][(pc \in InitPcs /\ pc' = "idle" /\ TotalTimeout)
          => /\ mgr'.engine = 0
             /\ mgr'.session_factory = 0
             /\ mgr'.sqlite_db = 0
             /\ mgr'.inmemory_db # 0]_vars

\* ------------------------------------------- claims on execute's edges

\* Queries of one criterion, a comparison or a NOT, over a field that the
\* entities of the kind do not have.
AbsentFieldQueries(kind) ==
    { <<[op |-> o, field |-> f, value |-> v]>> :
          o \in {"eq", "not"},
          f \in {g \in {"key", "flag", "ref"} : ~HasField(kind, g)},
          v \in {1} }

\* C31: on Tertiary and on Secondary a predicate over a field the entity
\* does not have counts as not matched: execute returns without raising
\* and its result holds no such entity.
C31_AbsentFieldNoMatch ==
    \A kind \in scope : \A q \in AbsentFieldQueries(kind) :
        /\ MemExecuteOutcome(mem, kind, q) = Returned(<<>>)
        /\ SqlExecuteOutcome(sql, kind, q) = Returned(<<>>)

\* Model classes InMemoryDB keeps no dict for, and model classes SQLiteDB
\* creates no table for (AuditLog stands for the models.py classes outside
\* the nine kinds).
MemUncollected == {"Connector", "Secret", "AuditLog"}

SqlUntabled == {"AuditLog"}

\* Where clauses of at most one criterion, of every shape execute tells apart.
AnyQueries ==
    {<<>>} \cup { <<[op |-> o, field |-> f, value |-> 1]>> :
                      o \in {"eq", "ge", "not", "or"}, f \in {"id", "key", "flag", "ref"} }

\* C32: on Tertiary and on Secondary, execute for an entity type the tier
\* has no collection or table for returns an empty result without raising,
\* whatever the predicates.
C32_UnknownTypeEmpty ==
    \A q \in AnyQueries :
        /\ \A kind \in MemUncollected : MemExecuteOutcome(mem, kind, q) = Returned(<<>>)
        /\ \A kind \in SqlUntabled : SqlExecuteOutcome(sql, kind, q) = Returned(<<>>)

\* Both tiers hold a User that execute returns, next to the empty results
\* for the unknown types.
C32_Witness ==
    /\ MemExecute(mem, "User", <<>>) # <<>>
    /\ SqlExecute(sql, "User", <<>>) # <<>>
    /\ MemExecute(mem, "AuditLog", <<>>) = <<>>
    /\ SqlExecute(sql, "AuditLog", <<>>) = <<>>

\* ------------------------------------------- claims on Secondary's tables

\* __tablename__ of each model class.
TableName(kind) ==
    CASE kind = "User" -> "users"
      [] kind = "RefreshToken" -> "refresh_tokens"
      [] kind = "OTP" -> "otps"
      [] kind = "API" -> "apis"
      [] kind = "Connector" -> "connectors"
      [] kind = "Secret" -> "secrets"
      [] kind = "Permission" -> "permissions"
      [] kind = "Role" -> "roles"
      [] kind = "UserRole" -> "user_roles"

\* Staged objects without id whose own table is t.
NewFor(pending, t) ==
    Cardinality({i \in 1..Len(pending) :
                    pending[i].id = 0 /\ TableName(pending[i].kind) = t})

\* C33: on Secondary commit / flush routes every staged object to the
\* table of its own kind and to that table only, in whatever order the
\* kinds are queued: a table changes only if an object of its kind was
\* staged, and a drain that succeeds adds to each table one row per new
\* object of its kind.
C33_RoutedToOwnTable ==
    [][(Commit \/ Flush) =>
          \A t \in SqlTables :
              /\ sql'.tables[t] # sql.tables[t]
                    => \E i \in 1..Len(sql.pending) : TableName(sql.pending[i].kind) = t
              /\ sqlErr' = "none"
                    => Cardinality(sql'.tables[t])
                         = Cardinality(sql.tables[t]) + NewFor(sql.pending, t)]_vars

\* A drain has written objects of two kinds, each to its own table.
C33_Witness ==
    /\ sqlErr = "none"
    /\ sql.pending = <<>>
    /\ sql.tables["users"] # {}
    /\ sql.tables["refresh_tokens"] # {}
    /\ recent.ops \in {"AC", "AAC", "ACAC"}

\* C34: on Secondary a nested field round-trips: the value read back by
\* execute, get_api, refresh or the return of create_api for an API's
\* config or resource or a Role's permissions equals the value written
\* through add + commit or create_api, the empty structure included, and a
\* plain string in a Permission's resource reads back as the same string.
C34_NestedRoundTrip ==
    doc.got # Unread => doc.got = doc.wrote

\* ------------------------------------------- claims on Tertiary's store

\* A step of commit, flush, rollback or refresh.
SessionNoOpStep ==
    \/ Commit
    \/ Flush
    \/ Rollback
    \/ \E k \in scope : \E i \in HeldIds(k) : Refresh(k, i)

\* C35: on Tertiary commit, flush, refresh and rollback leave every map
\* and every id counter as they were; rollback does not undo an earlier
\* add, which execute still returns.
C35_TertiaryNoOps ==
    [][SessionNoOpStep =>
          /\ mem' = mem
          /\ \A k \in scope : MemExecute(mem', k, <<>>) = MemExecute(mem, k, <<>>)]_vars

\* After add and rollback Tertiary still returns the entity that Secondary
\* has dropped.
C35_Witness ==
    /\ recent = NoRecent
    /\ sql.pending = <<>>
    /\ \E k \in scope : MemExecute(mem, k, <<>>) # <<>> /\ SqlExecute(sql, k, <<>>) = <<>>

\* ------------------------------------------- claims on the manager's tiers

\* The Secondary attempt of the initialize in progress begins.
SecondaryBegins == pc # "sq_connect" /\ pc' = "sq_connect"

\* C36: in the Primary attempt the connectivity probe runs before the
\* pool is constructed: when the probe fails no engine and no session
\* factory are created and Secondary is tried next; when the connection
\* test or the schema creation fails, the engine created is disposed of
\* before Secondary is tried.
C36_ProbeBeforePool ==
    [][/\ (pc = "pri_probe" /\ pri = "probe_fail" /\ PriProbeDone)
            => /\ mgr'.engine = mgr.engine
               /\ mgr'.session_factory = mgr.session_factory
               /\ pc' = "sq_connect"
               /\ mgr'.tried = <<"primary", "secondary">>
       /\ (pc = "pri_probe" /\ mgr'.engine # mgr.engine)
            => pri \notin {"probe_fail", "unconfigured"}
       /\ (SecondaryBegins /\ pri' \in {"test_fail", "tables_exc"})
            => /\ pc = "pri_dispose"
               /\ mgr'.engine = 0
               /\ mgr'.session_factory = 0]_vars

\* Secondary is being tried after the schema creation of Primary failed.
C36_Witness ==
    /\ pc = "sq_connect"
    /\ pri = "tables_exc"
    /\ mgr.tried = <<"primary", "secondary">>
    /\ mgr.engine = 0
    /\ mgr.alloc >= 2

\* C37: whenever no initialize, shutdown or reinitialize is in progress,
\* the tier flags agree with the resources held: is_using_primary implies
\* an engine and a session factory, is_using_sqlite implies a Secondary
\* adapter with an open connection.
C37_FlagsAgreeWithResources ==
    pc = "idle" =>
        /\ mgr.is_using_primary => (mgr.engine # 0 /\ mgr.session_factory # 0)
        /\ mgr.is_using_sqlite => (mgr.sqlite_db # 0 /\ mgr.sqlite_conn)

\* An initialize whose Primary attempt failed after the engine was created
\* has returned on Secondary.
C37_Witness ==
    /\ pc = "idle"
    /\ lastOp = "initialize"
    /\ pri = "test_fail"
    /\ mgr.is_using_sqlite
    /\ mgr.sqlite_conn
    /\ mgr.engine = 0

\* C38: get_session yields a non-null handle in every reachable manager
\* state: before the first initialize, after shutdown, and while an
\* initialize or shutdown of another caller is suspended; where no tier
\* flag is usable it creates a Tertiary store and yields that.
C38_SessionNeverNull ==
    /\ session.kind # "none"
    /\ session.kind # "unset" => session.inst # 0

\* A handle was yielded while the shutdown of another caller is suspended.
C38_Witness ==
    /\ pc \in ShutdownPcs
    /\ session.kind \notin {"unset", "none"}
    /\ session.inst # 0

\* ------------------------------------------- claim on handles kept

\* C39: once shutdown() or the shutdown step of reinitialize has
\* completed, the Secondary file stays released: no execute, commit,
\* create_api or refresh through a handle obtained before the shutdown
\* opens the file again or writes to it.
C39_FileStaysReleased ==
    adapter.phase = "down" =>
        /\ adapter.db = "none"
        /\ ~adapter.reopened
        /\ <<adapter.rows, adapter.apis>> = adapter.atDown

\* ------------------------------------------- claim on Tertiary's adds

\* Every entity stored in db is stored, unchanged and in the same dict, in db2.
MemKeeps(db, db2) ==
    \A st \in MemStores : \A i \in 1..Len(db.maps[st]) :
        \E j \in 1..Len(db2.maps[st]) : db2.maps[st][j] = db.maps[st][i]

\* C40: on Tertiary, adding a new entity (one without id) never replaces
\* or removes a stored entity, after any sequence of add and delete, adds
\* with a caller-supplied id at or above the type's counter included.
C40_AddKeepsStored ==
    [][\A k \in scope : \A e \in EntitiesOf(k) :
          (e.id = 0 /\ Add(e)) => MemKeeps(mem, mem')]_vars

====
